---- MODULE Spec2Model ----
(***************************************************************************)
(* State-machine model of the two orchestrators of the repository:         *)
(*   scripts/homebart.py   plan execution  (worker <-> reviewer, per step) *)
(*   scripts/lisamarge.py  plan generation (planner <-> reviewer)          *)
(*                                                                         *)
(* The artifact files are the durable state.  A file is modelled as a set: *)
(* {} when it does not exist, {content} when it does.  A text line is a    *)
(* sequence of tokens, so that Python's  "MARKER" in line  is a membership *)
(* test on the tokens of the line.                                         *)
(*                                                                         *)
(* The external agent is the environment: a launch returns with exit code  *)
(* 0, with a non-zero exit code, or is killed by the timeout; while it     *)
(* runs it may write the artifact its role is asked to write, or nothing.  *)
(***************************************************************************)
EXTENDS Integers, Sequences, FiniteSets, TLC

\* ------------------------------------------------------------------ bounds
MaxSteps == 2
MaxBudget == 4
MaxRetries == 3

\* the largest --max-agent-invocations of two runs on one session
MaxRaceBudget == 2

VARIABLES
    \* ---- execution workflow (homebart.py) ----
    plan_blocks,            \* step numbers of the plan's blocks, in file order
    max_agent_invocations,  \* args.max_agent_invocations
    pc,                     \* "start" | "loop" | "worker" | "reviewer" | "done"
    steps,                  \* parse_plan_file's result
    parse_error,            \* {} or {the StateFileError raised for the plan file}
    step_idx,               \* position of the for loop in steps
    iteration,
    last_role,
    work,                   \* step number -> file WORK_<N>_step_<S>.md
    review,                 \* step number -> file REVIEW_<N>_step_<S>.md
    worker_invocations,
    reviewer_invocations,
    revision_cycles,
    steps_completed,
    final_state,
    outcome,
    exit_code,
    summary_file,           \* file EXECUTION_SUMMARY_<N>.json
    summary_writes,         \* how many times write_summary wrote it
    \* history of the run (observers, not read by the orchestrator)
    launches,               \* step number -> [worker, reviewer] processes started
    approved_seen,          \* step numbers detected as approved
    review_feedback,        \* review_feedback of the last worker prompt ({} = None)
    verdict_counted,        \* the step's current REVIEW content has raised revision_cycles
    last_event,             \* what the last orchestrator step did
    nominal,                \* fresh session, and every launch so far exited 0 having
                            \* written its artifact (the reviewer an approval)
    \* ---- planning workflow (lisamarge.py) ----
    plan_max_agent_invocations, \* args.max_agent_invocations
    plan_pc,                    \* "start" | "loop" | "planner" | "planner_sleep" | "reviewer" |
                                \* "reviewer_sleep" | "done"
    plan_final,                 \* PLAN_FINAL_<N>.md exists
    plan_stuck,                 \* PLAN_STUCK_<N>.md exists
    plan_review,                \* PLAN_REVIEW_<N>.md exists
    plan_draft,                 \* PLAN_DRAFT_<N>.md exists
    planner_invocations,
    plan_reviewer_invocations,  \* reviewer_invocations of orchestrate_planning
    plan_revision_cycles,       \* revision_cycles of orchestrate_planning
    plan_final_state,           \* summary.final_state
    plan_outcome,               \* summary.outcome
    plan_exit_code,
    plan_summary_file,          \* file PLAN_SUMMARY_<N>.json
    plan_summary_writes,
    attempt,                    \* retry_with_backoff's attempt in flight
    on_attempt_calls,           \* arguments of the on_attempt calls of the invocation
    sleeps,                     \* time.sleep(2) calls of the invocation
    attempt_errors,             \* str(e) of the failed attempts of the invocation
    retry_result,               \* {} or {what retry_with_backoff returned}
    \* history of the run (observers, not read by the orchestrator)
    plan_launches,              \* [planner, reviewer] processes started
    cycles_at_dispatch,         \* revision_cycles when the invocation was dispatched
    plan_last_event,
    \* ---- command line and environment of the run (never changed by it) ----
    max_retries,                \* args.max_retries
    intervene_on_final_retry,   \* args.intervene_on_final_retry
    summary_writable,           \* the summary file can be opened for writing
    plan_review_readable,       \* PLAN_REVIEW_<N>.md can be opened for reading
    kiro_cli_path,              \* args.kiro_cli_path, as its path components
    problem_statement,          \* args.problem_statement / args.problem_statement_file
    created,                    \* the planning artifacts in order of creation
    \* ---- two runs of homebart.py on one session ----
    procs                       \* the local variables of each orchestrator process

exec_vars == <<plan_blocks, max_agent_invocations, pc, steps, parse_error, step_idx,
               iteration,
               last_role, work, review, worker_invocations, reviewer_invocations,
               revision_cycles, steps_completed, final_state, outcome, exit_code,
               summary_file, summary_writes, launches, approved_seen, last_event,
               nominal, review_feedback, verdict_counted>>

plan_vars == <<plan_max_agent_invocations, plan_pc, plan_final, plan_stuck,
               plan_review, plan_draft, planner_invocations, plan_reviewer_invocations,
               plan_revision_cycles, plan_final_state, plan_outcome, plan_exit_code,
               plan_summary_file, plan_summary_writes, attempt, on_attempt_calls, sleeps,
               attempt_errors,
               retry_result, plan_launches, cycles_at_dispatch, plan_last_event>>

env_vars == <<max_retries, intervene_on_final_retry, summary_writable,
              plan_review_readable, kiro_cli_path, problem_statement, created>>

race_vars == <<procs>>

vars == <<exec_vars, plan_vars, env_vars, race_vars>>

\* ------------------------------------------------------------------ files
None == "None"

\* the orchestrator processes of a session that is run twice at the same time
Procs == {1, 2}

\* the locals of orchestrate_execution in a process that has not been started
NoProcs == [p \in Procs |-> [pc |-> "idle", iteration |-> 0, last_role |-> None,
                             final_state |-> None, worker_invocations |-> 0,
                             reviewer_invocations |-> 0, revision_cycles |-> 0,
                             steps_completed |-> 0, outcome |-> None,
                             exit_code |-> -1, last_event |-> "none",
                             start_time |-> 26, end_time |-> 0]]

\* the lengths of datetime.now().isoformat(): without the microseconds on a
\* whole second
IsoformatLens == {19, 26}
StepNums == 1..MaxSteps
BlockNums == 1..(MaxSteps + 1)

Exists(file) == file # {}
Content(file) == CHOOSE c \in file : TRUE

\* "token" in line
Contains(line, token) == \E i \in 1..Len(line) : line[i] = token

APPROVED == "APPROVED"
NEEDS_REWORK == "NEEDS REWORK"

\* (mutant) the last line is read instead of the first
readline_LastLine(content) == IF Len(content) = 0 THEN <<>> ELSE content[Len(content)]

\* f.readline(): the first line, or the empty string for an empty file
readline(content) == IF Len(content) = 0 THEN <<>> ELSE content[1]

\* ------------------------------------------------------------------ state detection
\* (mutant) the WORK file is looked at before the REVIEW file
detect_step_state_WorkFirst(review_file, work_file) ==
    IF Exists(work_file) THEN "work_done"
    ELSE IF Exists(review_file)
    THEN LET first_line == readline(Content(review_file)) IN
         IF Contains(first_line, "APPROVED") THEN "approved"
         ELSE IF Contains(first_line, "NEEDS REWORK") THEN "needs_rework"
         ELSE "review_done"
    ELSE "initial"

\* (mutant) a review without marker counts as a request for rework
detect_step_state_UnmarkedIsRework(review_file, work_file) ==
    IF Exists(review_file)
    THEN LET first_line == readline(Content(review_file)) IN
         IF Contains(first_line, APPROVED) THEN "approved"
         ELSE "needs_rework"
    ELSE IF Exists(work_file) THEN "work_done"
    ELSE "initial"

detect_step_state(review_file, work_file) ==
    IF Exists(review_file)
    THEN LET first_line == readline(Content(review_file)) IN
         IF Contains(first_line, APPROVED) THEN "approved"
         ELSE IF Contains(first_line, NEEDS_REWORK) THEN "needs_rework"
         ELSE "review_done"
    ELSE IF Exists(work_file) THEN "work_done"
    ELSE "initial"

\* review_feedback = content.replace("NEEDS REWORK\n", "").strip(): every
\* line that ends with the marker loses the marker and its newline, so what is
\* left of it runs into the next line; strip() then drops the empty lines at
\* both ends.  Lines are sequences of tokens, each line ends with a newline.
RECURSIVE replace_marker(_, _)
replace_marker(lines, carry) ==
    IF lines = <<>> THEN (IF carry = <<>> THEN <<>> ELSE <<carry>>)
    ELSE LET line == Head(lines) IN
         IF Len(line) > 0 /\ line[Len(line)] = NEEDS_REWORK
         THEN replace_marker(Tail(lines), carry \o SubSeq(line, 1, Len(line) - 1))
         ELSE <<carry \o line>> \o replace_marker(Tail(lines), <<>>)

RECURSIVE strip(_)
strip(lines) ==
    IF lines = <<>> THEN <<>>
    ELSE IF Head(lines) = <<>> THEN strip(Tail(lines))
    ELSE IF lines[Len(lines)] = <<>> THEN strip(SubSeq(lines, 1, Len(lines) - 1))
    ELSE lines

strip_marker(content) == strip(replace_marker(content, <<>>))

\* ------------------------------------------------------------------ plan parser
\* The step blocks found by the regular expression are given by their numbers
\* in file order; the description of a block is identified by its position.
\* (mutant) the steps are sorted in descending order
RECURSIVE SortByStepNumDescending(_)
SortByStepNumDescending(ss) ==
    IF ss = {} THEN <<>>
    ELSE LET most == CHOOSE s \in ss : \A t \in ss : s.step_num >= t.step_num
         IN <<most>> \o SortByStepNumDescending(ss \ {most})

RECURSIVE SortByStepNum(_)
SortByStepNum(ss) ==
    IF ss = {} THEN <<>>
    ELSE LET least == CHOOSE s \in ss : \A t \in ss : s.step_num <= t.step_num
         IN <<least>> \o SortByStepNum(ss \ {least})

\* (mutant) the steps are returned in the order of the file
parse_plan_file_Unsorted(blocks) ==
    LET n == Len(blocks)
        dup == {i \in 1..n : \E j \in 1..(i - 1) : blocks[j] = blocks[i]}
    IN  IF n = 0 THEN [status |-> "empty", steps |-> <<>>, detail |-> {}]
        ELSE IF dup # {}
        THEN [status |-> "duplicate", steps |-> <<>>,
              detail |-> {blocks[CHOOSE i \in dup : \A k \in dup : i <= k]}]
        ELSE IF 1..n # {blocks[i] : i \in 1..n}
        THEN [status |-> "non_sequential", steps |-> <<>>,
              detail |-> (1..n) \ {blocks[i] : i \in 1..n}]
        ELSE [status |-> "ok", detail |-> {},
              steps |-> [i \in 1..n |-> [step_num |-> blocks[i], description |-> i]]]

\* (mutant) a repeated step number is not looked for
parse_plan_file_NoDuplicateCheck(blocks) ==
    LET n == Len(blocks)
        parsed == {[step_num |-> blocks[i], description |-> i] : i \in 1..n}
    IN  IF n = 0 THEN [status |-> "empty", steps |-> <<>>, detail |-> {}]
        ELSE IF 1..n # {blocks[i] : i \in 1..n}
        THEN [status |-> "non_sequential", steps |-> <<>>,
              detail |-> (1..n) \ {blocks[i] : i \in 1..n}]
        ELSE [status |-> "ok", steps |-> SortByStepNum(parsed), detail |-> {}]

parse_plan_file(blocks) ==
    LET n == Len(blocks)
        dup == {i \in 1..n : \E j \in 1..(i - 1) : blocks[j] = blocks[i]}
        parsed == {[step_num |-> blocks[i], description |-> i] : i \in 1..n}
        expected_nums == 1..n
        actual_nums == {blocks[i] : i \in 1..n}
    IN  IF n = 0 THEN [status |-> "empty", steps |-> <<>>, detail |-> {}]
        ELSE IF dup # {}
        THEN [status |-> "duplicate", steps |-> <<>>,
              detail |-> {blocks[CHOOSE i \in dup : \A k \in dup : i <= k]}]
        ELSE IF expected_nums # actual_nums
        THEN [status |-> "non_sequential", steps |-> <<>>,
              detail |-> expected_nums \ actual_nums]
        ELSE [status |-> "ok", steps |-> SortByStepNum(parsed), detail |-> {}]

\* ------------------------------------------------------------------ agent launch
Outcomes == {"exit0", "nonzero", "timeout"}

\* invoke_kiro_cli of homebart.py: the result, or the text of the KiroCliError
invoke_kiro_cli(proc) ==
    IF proc = "exit0" THEN [ok |-> TRUE, error |-> <<>>]
    ELSE IF proc = "timeout"
    THEN [ok |-> FALSE, error |-> <<"kiro-cli", "timed out", "after">>]
    ELSE [ok |-> FALSE, error |-> <<"kiro-cli invocation failed:", "kiro-cli failed with exit code">>]

\* "timed out" in str(e)
IsTimeout(error) == Contains(error, "timed out")

\* what a worker process may leave in the WORK file of its step
AgentWork == [origin |-> "agent", description |-> 0]
WorkerWrites == {{}, {AgentWork}}
AfterWorker(file, written) == IF written = {} THEN file ELSE written

\* what a reviewer process may leave in the REVIEW file of its step
ReviewApproved == << <<APPROVED>>, <<"verified">> >>
ReviewRework == << <<NEEDS_REWORK>>, <<"fix X">> >>
ReviewReworkInline == << <<NEEDS_REWORK, ": fix X">> >>
ReviewUnmarked == << <<"Looks okay">>, <<APPROVED>> >>
AgentReviews == {ReviewApproved, ReviewRework, ReviewReworkInline, ReviewUnmarked}
ReviewerWrites == {{}} \cup {{r} : r \in AgentReviews}
\* (mutant) the review artifact is removed before the reviewer runs
AfterReviewerReplacing(file, written) == written

AfterReviewer(file, written) == IF written = {} THEN file ELSE written

\* the fallback artifacts written by the orchestrator on timeout
\* (mutant) the fallback text leaves out the step description
WorkTimeoutFeedbackWithoutStep(s) == [origin |-> "timeout", description |-> 0]

WorkTimeoutFeedback(s) == [origin |-> "timeout", description |-> s.description]
ReviewTimeoutFeedback == << <<NEEDS_REWORK>>, <<"Reviewer timed out">>, <<"ACTION REQUIRED">> >>

\* ------------------------------------------------------------------ summary
Summary(fs, oc, sc) ==
    [worker_invocations |-> worker_invocations,
     reviewer_invocations |-> reviewer_invocations,
     revision_cycles |-> revision_cycles,
     steps_completed |-> sc,
     final_state |-> fs,
     outcome |-> oc]

\* (mutant) the summary is never written
write_summary_Skipped(summary) == UNCHANGED <<summary_file, summary_writes>>

\* write_summary: best effort, a failure to write is logged and swallowed
write_summary(summary) ==
    IF summary_writable
    THEN /\ summary_file' = {summary}
         /\ summary_writes' = summary_writes + 1
    ELSE UNCHANGED <<summary_file, summary_writes>>

\* a terminal exit of orchestrate_execution: outcome, write_summary, exit code
Terminate(fs, oc, sc, code) ==
    /\ pc' = "done"
    /\ outcome' = oc
    /\ exit_code' = code
    /\ write_summary(Summary(fs, oc, sc))


\* ------------------------------------------------------------------ execution workflow
Plans == UNION {[1..n -> BlockNums] : n \in 0..MaxSteps}

\* The artifacts a session may start from: none (a fresh session), or those an
\* earlier, interrupted run of the same session left behind.
NoArtifacts == [work |-> {}, review |-> {}]
InitialArtifacts ==
    {NoArtifacts,
     [work |-> {AgentWork}, review |-> {}],
     [work |-> {AgentWork}, review |-> {ReviewApproved}],
     [work |-> {AgentWork}, review |-> {ReviewRework}]}

NoLaunches == [n \in StepNums |-> [worker |-> 0, reviewer |-> 0]]

\* the planning workflow is not running
PlanIdle ==
    /\ plan_max_agent_invocations = 0
    /\ plan_pc = "idle"
    /\ plan_final = FALSE
    /\ plan_stuck = FALSE
    /\ plan_review = FALSE
    /\ plan_draft = FALSE
    /\ planner_invocations = 0
    /\ plan_reviewer_invocations = 0
    /\ plan_revision_cycles = 0
    /\ plan_final_state = None
    /\ plan_outcome = None
    /\ plan_exit_code = -1
    /\ plan_summary_file = {}
    /\ plan_summary_writes = 0
    /\ attempt = 0
    /\ on_attempt_calls = <<>>
    /\ sleeps = 0
    /\ attempt_errors = <<>>
    /\ retry_result = {}
    /\ plan_launches = [planner |-> 0, reviewer |-> 0]
    /\ cycles_at_dispatch = 0
    /\ plan_last_event = "none"
    /\ plan_review_readable = TRUE
    /\ kiro_cli_path = <<"kiro-cli">>
    /\ problem_statement = "given"
    /\ created = <<>>

\* orchestrate_execution is entered: nothing parsed, counted or decided yet
ExecStart ==
    /\ pc = "start"
    /\ steps = <<>>
    /\ parse_error = {}
    /\ step_idx = 0
    /\ iteration = 0
    /\ last_role = None
    /\ worker_invocations = 0
    /\ reviewer_invocations = 0
    /\ revision_cycles = 0
    /\ steps_completed = 0
    /\ final_state = None
    /\ outcome = None
    /\ exit_code = -1
    /\ summary_file = {}
    /\ summary_writes = 0
    /\ launches = NoLaunches
    /\ approved_seen = {}
    /\ review_feedback = {}
    /\ verdict_counted = FALSE
    /\ last_event = "none"

\* Any plan file, any budget, fresh and resumed sessions.  --max-retries is
\* accepted but never read by orchestrate_execution; the interactive fallback
\* is off and the summary file is writable.
ExecInit ==
    /\ PlanIdle
    /\ procs = NoProcs
    /\ ExecStart
    /\ plan_blocks \in Plans
    /\ max_agent_invocations \in 0..MaxBudget
    /\ max_retries = 1
    /\ intervene_on_final_retry = FALSE
    /\ summary_writable = TRUE
    /\ \E present \in [StepNums -> InitialArtifacts] :
        /\ work = [n \in StepNums |-> present[n].work]
        /\ review = [n \in StepNums |-> present[n].review]
        /\ nominal = (\A n \in StepNums : present[n] = NoArtifacts)

step == steps[step_idx]
step_num == steps[step_idx].step_num

\* the state an iteration acts on: forced after a worker success, else detected
\* (mutant) the state is always detected from the artifacts
IterationStateDetected(role, review_file, work_file) ==
    detect_step_state(review_file, work_file)

IterationState(role, review_file, work_file) ==
    IF role = "worker" THEN "work_done"
    ELSE detect_step_state(review_file, work_file)

state == IterationState(last_role, review[step_num], work[step_num])

\* while iteration < args.max_agent_invocations
\* (mutant) the loop runs while iteration <= max_agent_invocations
WhileGuardInclusive == pc = "loop" /\ iteration <= max_agent_invocations

WhileGuard == pc = "loop" /\ iteration < max_agent_invocations

\* (mutant) the reviewer is launched first and the worker on finished work
pending_role_Swapped(st) ==
    IF st \in {"initial", "needs_rework"} THEN "reviewer"
    ELSE IF st = "work_done" THEN "worker"
    ELSE None

\* the role the branch of orchestrate_execution taken for a state launches
pending_role(st) ==
    IF st \in {"initial", "needs_rework"} THEN "worker"
    ELSE IF st = "work_done" THEN "reviewer"
    ELSE None

\* is_final_attempt = (iteration == args.max_agent_invocations), where iteration
\* is the number of the iteration that launches
exec_is_final_attempt(it) == it = max_agent_invocations

\* steps = parse_plan_file(plan_file); "No steps found"; the for loop starts
ParsePlan ==
    /\ pc = "start"
    /\ LET parsed == parse_plan_file(plan_blocks) IN
       IF parsed.status = "ok"
       THEN /\ steps' = parsed.steps
            /\ parse_error' = {}
            /\ step_idx' = 1
            /\ pc' = "loop"
            /\ last_event' = "parsed"
            /\ UNCHANGED <<outcome, exit_code, summary_file, summary_writes>>
       ELSE /\ Terminate(final_state, "failure", steps_completed, 2)
            /\ parse_error' = {[kind |-> parsed.status, detail |-> parsed.detail]}
            /\ last_event' = "state_file_error"
            /\ UNCHANGED <<steps, step_idx>>
    /\ UNCHANGED <<plan_vars, env_vars, race_vars, review_feedback, verdict_counted>>
    /\ UNCHANGED <<plan_blocks, max_agent_invocations, iteration, last_role, work, review,
                   worker_invocations, reviewer_invocations, revision_cycles,
                   steps_completed, final_state, launches, approved_seen, nominal>>

\* (mutant) the check after the loop uses > instead of >=
AfterWhileStrict(it, fs, sc) ==
    IF it > max_agent_invocations
    THEN /\ Terminate(fs, "max_agent_invocations", sc, 1)
         /\ iteration' = it
         /\ UNCHANGED <<step_idx, last_role>>
    ELSE IF step_idx = Len(steps)
    THEN /\ Terminate(fs, "success", sc, 0)
         /\ iteration' = it
         /\ UNCHANGED <<step_idx, last_role>>
    ELSE /\ step_idx' = step_idx + 1
         /\ iteration' = 0
         /\ last_role' = None
         /\ pc' = "loop"
         /\ UNCHANGED <<outcome, exit_code, summary_file, summary_writes>>

\* the code after the while loop of a step, reached by break or by exhaustion
AfterWhile(it, fs, sc) ==
    IF it >= max_agent_invocations
    THEN /\ Terminate(fs, "max_agent_invocations", sc, 1)
         /\ iteration' = it
         /\ UNCHANGED <<step_idx, last_role>>
    ELSE IF step_idx = Len(steps)
    THEN /\ Terminate(fs, "success", sc, 0)
         /\ iteration' = it
         /\ UNCHANGED <<step_idx, last_role>>
    ELSE /\ step_idx' = step_idx + 1
         /\ iteration' = 0
         /\ last_role' = None
         /\ pc' = "loop"
         /\ UNCHANGED <<outcome, exit_code, summary_file, summary_writes>>

\* state == "approved": count the step, break
IterApproved ==
    /\ WhileGuard
    /\ state = "approved"
    /\ final_state' = state
    /\ steps_completed' = steps_completed + 1
    /\ approved_seen' = approved_seen \cup {step_num}
    /\ last_event' = "approved"
    /\ AfterWhile(iteration + 1, state, steps_completed + 1)
    /\ verdict_counted' = FALSE
    /\ UNCHANGED <<plan_vars, env_vars, race_vars, parse_error, review_feedback>>
    /\ UNCHANGED <<plan_blocks, max_agent_invocations, steps, work, review,
                   worker_invocations, reviewer_invocations, revision_cycles,
                   launches, nominal>>

\* state in ["initial", "needs_rework"]: launch the worker
IterWorker ==
    /\ WhileGuard
    /\ state # "approved"
    /\ pending_role(state) = "worker"
    /\ iteration' = iteration + 1
    /\ final_state' = state
    /\ revision_cycles' = IF state = "needs_rework" THEN revision_cycles + 1
                          ELSE revision_cycles
    /\ pc' = "worker"
    /\ launches' = [launches EXCEPT ![step_num].worker = @ + 1]
    /\ last_event' = "worker_launched"
    /\ review_feedback' = IF state = "needs_rework"
                          THEN {strip_marker(Content(review[step_num]))}
                          ELSE {}
    /\ verdict_counted' = (verdict_counted \/ state = "needs_rework")
    /\ UNCHANGED <<plan_vars, env_vars, race_vars, parse_error>>
    /\ UNCHANGED <<plan_blocks, max_agent_invocations, steps, step_idx, last_role, work,
                   review, worker_invocations, reviewer_invocations, steps_completed,
                   outcome, exit_code, summary_file, summary_writes, approved_seen,
                   nominal>>

\* state == "work_done": read the WORK file, launch the reviewer
IterReviewer ==
    /\ WhileGuard
    /\ state # "approved"
    /\ pending_role(state) = "reviewer"
    /\ Exists(work[step_num])
    /\ iteration' = iteration + 1
    /\ final_state' = state
    /\ pc' = "reviewer"
    /\ launches' = [launches EXCEPT ![step_num].reviewer = @ + 1]
    /\ last_event' = "reviewer_launched"
    /\ UNCHANGED <<plan_vars, env_vars, race_vars, parse_error, review_feedback, verdict_counted>>
    /\ UNCHANGED <<plan_blocks, max_agent_invocations, steps, step_idx, last_role, work,
                   review, worker_invocations, reviewer_invocations, revision_cycles,
                   steps_completed, outcome, exit_code, summary_file, summary_writes,
                   approved_seen, nominal>>

\* state == "work_done" but the WORK file cannot be opened: StateFileError
IterWorkMissing ==
    /\ WhileGuard
    /\ state # "approved"
    /\ pending_role(state) = "reviewer"
    /\ ~Exists(work[step_num])
    /\ iteration' = iteration + 1
    /\ final_state' = state
    /\ Terminate(state, "failure", steps_completed, 2)
    /\ last_event' = "state_file_error"
    /\ UNCHANGED <<plan_vars, env_vars, race_vars, parse_error, review_feedback, verdict_counted>>
    /\ UNCHANGED <<plan_blocks, max_agent_invocations, steps, step_idx, last_role, work,
                   review, worker_invocations, reviewer_invocations, revision_cycles,
                   steps_completed, launches, approved_seen, nominal>>

\* state == "review_done": log and continue
IterReviewDone ==
    /\ WhileGuard
    /\ state = "review_done"
    /\ pending_role(state) = None
    /\ iteration' = iteration + 1
    /\ final_state' = state
    /\ last_event' = "review_done"
    /\ UNCHANGED <<plan_vars, env_vars, race_vars, parse_error, review_feedback, verdict_counted>>
    /\ UNCHANGED <<plan_blocks, max_agent_invocations, pc, steps, step_idx, last_role,
                   work, review, worker_invocations, reviewer_invocations,
                   revision_cycles, steps_completed, outcome, exit_code, summary_file,
                   summary_writes, launches, approved_seen, nominal>>

\* the while condition fails: the step used up its iterations
LoopExhausted ==
    /\ pc = "loop"
    /\ ~(iteration < max_agent_invocations)
    /\ last_event' = "exhausted"
    /\ AfterWhile(iteration, final_state, steps_completed)
    /\ UNCHANGED <<plan_vars, env_vars, race_vars, parse_error, review_feedback, verdict_counted>>
    /\ UNCHANGED <<plan_blocks, max_agent_invocations, steps, work, review,
                   worker_invocations, reviewer_invocations, revision_cycles,
                   steps_completed, final_state, launches, approved_seen, nominal>>


\* an exception leaves the loop: outcome failure, write_summary, exit code 2
Raise ==
    /\ Terminate(final_state, "failure", steps_completed, 2)
    /\ UNCHANGED <<step_idx, iteration, last_role, steps_completed, final_state>>

\* the worker process exits 0
WorkerSucceeds ==
    /\ pc = "worker"
    /\ \E proc \in Outcomes, written \in WorkerWrites :
        /\ invoke_kiro_cli(proc).ok
        /\ work' = [work EXCEPT ![step_num] = AfterWorker(@, written)]
        /\ nominal' = (nominal /\ written # {})
    /\ worker_invocations' = worker_invocations + 1
    /\ last_role' = "worker"
    /\ pc' = "loop"
    /\ last_event' = "worker_ok"
    /\ UNCHANGED <<plan_vars, env_vars, race_vars, parse_error, review_feedback, verdict_counted>>
    /\ UNCHANGED <<plan_blocks, max_agent_invocations, steps, step_idx, iteration, review,
                   reviewer_invocations, revision_cycles, steps_completed, final_state,
                   outcome, exit_code, summary_file, summary_writes, launches,
                   approved_seen>>

\* the worker process is killed by the timeout: the fallback WORK file is written
WorkerTimesOut ==
    /\ pc = "worker"
    /\ \E proc \in Outcomes :
        /\ ~invoke_kiro_cli(proc).ok
        /\ IsTimeout(invoke_kiro_cli(proc).error)
    /\ work' = [work EXCEPT ![step_num] = {WorkTimeoutFeedback(step)}]
    /\ worker_invocations' = worker_invocations + 1
    /\ pc' = "loop"
    /\ last_event' = "worker_timeout"
    /\ nominal' = FALSE
    /\ UNCHANGED <<plan_vars, env_vars, race_vars, parse_error, review_feedback, verdict_counted>>
    /\ UNCHANGED <<plan_blocks, max_agent_invocations, steps, step_idx, iteration,
                   last_role, review, reviewer_invocations, revision_cycles,
                   steps_completed, final_state, outcome, exit_code, summary_file,
                   summary_writes, launches, approved_seen>>

\* the worker process fails otherwise: the KiroCliError is raised again
WorkerFails ==
    /\ pc = "worker"
    /\ \E proc \in Outcomes, written \in WorkerWrites :
        /\ ~invoke_kiro_cli(proc).ok
        /\ ~IsTimeout(invoke_kiro_cli(proc).error)
        /\ work' = [work EXCEPT ![step_num] = AfterWorker(@, written)]
    /\ Raise
    /\ last_event' = "worker_failed"
    /\ nominal' = FALSE
    /\ UNCHANGED <<plan_vars, env_vars, race_vars, parse_error, review_feedback, verdict_counted>>
    /\ UNCHANGED <<plan_blocks, max_agent_invocations, steps, review, worker_invocations,
                   reviewer_invocations, revision_cycles, launches, approved_seen>>

\* the reviewer process exits 0
ReviewerSucceeds ==
    /\ pc = "reviewer"
    /\ \E proc \in Outcomes, written \in ReviewerWrites :
        /\ invoke_kiro_cli(proc).ok
        /\ review' = [review EXCEPT ![step_num] = AfterReviewer(@, written)]
        /\ nominal' = (nominal /\ written = {ReviewApproved})
        /\ verdict_counted' = (verdict_counted /\ written = {})
    /\ reviewer_invocations' = reviewer_invocations + 1
    /\ last_role' = "reviewer"
    /\ pc' = "loop"
    /\ last_event' = "reviewer_ok"
    /\ UNCHANGED <<plan_vars, env_vars, race_vars, parse_error, review_feedback>>
    /\ UNCHANGED <<plan_blocks, max_agent_invocations, steps, step_idx, iteration, work,
                   worker_invocations, revision_cycles, steps_completed, final_state,
                   outcome, exit_code, summary_file, summary_writes, launches,
                   approved_seen>>

\* the reviewer process is killed by the timeout: the fallback REVIEW file is written
ReviewerTimesOut ==
    /\ pc = "reviewer"
    /\ \E proc \in Outcomes :
        /\ ~invoke_kiro_cli(proc).ok
        /\ IsTimeout(invoke_kiro_cli(proc).error)
    /\ review' = [review EXCEPT ![step_num] = {ReviewTimeoutFeedback}]
    /\ reviewer_invocations' = reviewer_invocations + 1
    /\ pc' = "loop"
    /\ last_event' = "reviewer_timeout"
    /\ nominal' = FALSE
    /\ verdict_counted' = FALSE
    /\ UNCHANGED <<plan_vars, env_vars, race_vars, parse_error, review_feedback>>
    /\ UNCHANGED <<plan_blocks, max_agent_invocations, steps, step_idx, iteration,
                   last_role, work, worker_invocations, revision_cycles, steps_completed,
                   final_state, outcome, exit_code, summary_file, summary_writes,
                   launches, approved_seen>>

\* the reviewer process fails otherwise: the KiroCliError is raised again
ReviewerFails ==
    /\ pc = "reviewer"
    /\ \E proc \in Outcomes, written \in ReviewerWrites :
        /\ ~invoke_kiro_cli(proc).ok
        /\ ~IsTimeout(invoke_kiro_cli(proc).error)
        /\ review' = [review EXCEPT ![step_num] = AfterReviewer(@, written)]
    /\ Raise
    /\ last_event' = "reviewer_failed"
    /\ nominal' = FALSE
    /\ UNCHANGED <<plan_vars, env_vars, race_vars, parse_error, review_feedback, verdict_counted>>
    /\ UNCHANGED <<plan_blocks, max_agent_invocations, steps, work, worker_invocations,
                   reviewer_invocations, revision_cycles, launches, approved_seen>>

ExecNext ==
    \/ ParsePlan
    \/ IterApproved
    \/ IterWorker
    \/ IterReviewer
    \/ IterWorkMissing
    \/ IterReviewDone
    \/ LoopExhausted
    \/ WorkerSucceeds
    \/ WorkerTimesOut
    \/ WorkerFails
    \/ ReviewerSucceeds
    \/ ReviewerTimesOut
    \/ ReviewerFails

SpecExec == ExecInit /\ [][ExecNext]_vars

\* A fresh session on a one-step plan under every combination of --max-retries,
\* --intervene-on-final-retry and a writable / unwritable summary file.
ExecArgsInit ==
    /\ PlanIdle
    /\ procs = NoProcs
    /\ ExecStart
    /\ plan_blocks = <<1>>
    /\ max_agent_invocations \in 0..MaxBudget
    /\ max_retries \in 1..MaxRetries
    /\ intervene_on_final_retry \in BOOLEAN
    /\ summary_writable \in BOOLEAN
    /\ work = [n \in StepNums |-> {}]
    /\ review = [n \in StepNums |-> {}]
    /\ nominal = TRUE

SpecExecArgs == ExecArgsInit /\ [][ExecNext]_vars

\* The first step of orchestrate_execution alone, the parsing of the plan file,
\* on plan files of up to MaxSteps + 1 blocks numbered 0..MaxSteps + 1.
ParsePlans == UNION {[1..n -> 0..(MaxSteps + 1)] : n \in 0..(MaxSteps + 1)}

ParseInit ==
    /\ PlanIdle
    /\ procs = NoProcs
    /\ ExecStart
    /\ plan_blocks \in ParsePlans
    /\ max_agent_invocations = MaxBudget
    /\ max_retries = 1
    /\ intervene_on_final_retry = FALSE
    /\ summary_writable = TRUE
    /\ work = [n \in StepNums |-> {}]
    /\ review = [n \in StepNums |-> {}]
    /\ nominal = TRUE

SpecParse == ParseInit /\ [][ParsePlan]_vars


\* ------------------------------------------------------------------ two processes
\* homebart.py started twice with the same --plan-name on a one-step plan.
\* Each process has its own locals and summary object (procs[p]); the WORK and
\* REVIEW files of the step and the summary file are shared.  Neither script
\* takes a lock, so a step of one process is a step of orchestrate_execution
\* on its own locals and the shared files.
RaceInit ==
    /\ PlanIdle
    /\ pc = "race"
    /\ plan_blocks = <<1>>
    /\ steps = parse_plan_file(plan_blocks).steps
    /\ parse_error = {}
    /\ step_idx = 1
    /\ max_agent_invocations \in 1..MaxRaceBudget
    /\ iteration = 0
    /\ last_role = None
    /\ worker_invocations = 0
    /\ reviewer_invocations = 0
    /\ revision_cycles = 0
    /\ steps_completed = 0
    /\ final_state = None
    /\ outcome = None
    /\ exit_code = -1
    /\ summary_file = {}
    /\ summary_writes = 0
    /\ launches = NoLaunches
    /\ approved_seen = {}
    /\ review_feedback = {}
    /\ verdict_counted = FALSE
    /\ last_event = "none"
    /\ nominal = TRUE
    /\ \E present \in InitialArtifacts :
        /\ work = [n \in StepNums |-> IF n = 1 THEN present.work ELSE {}]
        /\ review = [n \in StepNums |-> IF n = 1 THEN present.review ELSE {}]
    /\ max_retries = 1
    /\ intervene_on_final_retry = FALSE
    /\ summary_writable = TRUE
    /\ \E started \in [Procs -> IsoformatLens] :
        procs = [p \in Procs |-> [NoProcs[p] EXCEPT !.pc = "loop",
                                                    !.start_time = started[p]]]

\* what the single-process variables of the execution workflow keep in a race
RaceFrame ==
    UNCHANGED <<plan_blocks, max_agent_invocations, pc, steps, parse_error, step_idx,
                iteration, last_role, worker_invocations, reviewer_invocations,
                revision_cycles, steps_completed, final_state, outcome, exit_code,
                launches, approved_seen, last_event, nominal, review_feedback,
                verdict_counted, plan_vars, env_vars>>

\* the state process p acts on in its next iteration
RaceState(p) == IterationState(procs[p].last_role, review[step_num], work[step_num])

\* (mutant) a process waits while the other one has a launch in flight
RaceWhileGuardExclusive(p) ==
    /\ procs[p].pc = "loop"
    /\ procs[p].iteration < max_agent_invocations
    /\ \A q \in Procs \ {p} : procs[q].pc \notin {"worker", "reviewer"}

\* while iteration < args.max_agent_invocations, in process p
RaceWhileGuard(p) ==
    /\ procs[p].pc = "loop"
    /\ procs[p].iteration < max_agent_invocations

\* the summary object of process p at an exit
RaceSummary(local, fs, oc, sc) ==
    [worker_invocations |-> local.worker_invocations,
     reviewer_invocations |-> local.reviewer_invocations,
     revision_cycles |-> local.revision_cycles,
     steps_completed |-> sc,
     final_state |-> fs,
     outcome |-> oc,
     start_time |-> local.start_time,
     end_time |-> local.end_time]

\* the number of characters json.dump writes for a counter
DigitsLen(n) == IF n < 10 THEN 1 ELSE 2

\* the number of characters json.dump writes for a text field, less the two
\* quotes of a string (None is written as null)
TextLen(s) ==
    CASE s = None -> 2
      [] s = "initial" -> 7
      [] s = "work_done" -> 9
      [] s = "needs_rework" -> 12
      [] s = "review_done" -> 11
      [] s = "approved" -> 8
      [] s = "success" -> 7
      [] s = "failure" -> 7
      [] s = "max_agent_invocations" -> 21

\* the length of json.dump(summary.to_dict(), indent=2): the keys and the
\* layout, two timestamps (kept by their lengths), four counters, final_state
\* and outcome
SummaryLen(summary) ==
    178 + summary.start_time + summary.end_time
        + DigitsLen(summary.worker_invocations) + DigitsLen(summary.reviewer_invocations)
        + DigitsLen(summary.revision_cycles) + DigitsLen(summary.steps_completed)
        + TextLen(summary.final_state) + TextLen(summary.outcome)

\* the summary file as open(summary_file, 'w') leaves it: truncated to nothing
Truncated == [not_json |-> 0]

\* the number of characters in the summary file
FileLen(file) ==
    IF file = {} THEN 0
    ELSE IF "not_json" \in DOMAIN Content(file) THEN Content(file).not_json
    ELSE SummaryLen(Content(file))

\* the text of a summary written at offset 0 of the file as another process
\* has left it meanwhile: a longer text keeps its tail, which is not JSON
Overwrite(file, summary) ==
    IF FileLen(file) > SummaryLen(summary)
    THEN {[not_json |-> FileLen(file)]}
    ELSE {summary}

\* the exit code of a run by its outcome: return 0, return 1, or the error
\* that main turns into exit code 2
RaceExitCode(oc) ==
    IF oc = "success" THEN 0
    ELSE IF oc = "max_agent_invocations" THEN 1
    ELSE 2

\* a WORK file that has been opened with mode 'w' and not written yet
EmptyWork == [origin |-> "empty", description |-> 0]

\* a REVIEW file that has been opened with mode 'w' and not written yet
EmptyReview == <<>>

\* f.write(timeout_feedback) writes at offset 0 of the file opened earlier.  A
\* text the other process or its agent has written there meanwhile is
\* replaced as far as the fallback text reaches; the rest of a longer text
\* stays behind it.  The length of an agent's text is not known, and the
\* fallback text of the other process names its own --timeout, which may have
\* more digits or fewer: whatever text is in the file may be longer or not.
WorkWithTail(text) == [text EXCEPT !.origin = "timeout, then the rest of a longer text"]

ReviewWithTail(text) == text \o << <<"(the rest of a longer text)">> >>

WorkFallbackOver(file, text) ==
    IF file = {} \/ file = {EmptyWork} THEN {{text}}
    ELSE {{text}, {WorkWithTail(text)}}

ReviewFallbackOver(file, text) ==
    IF file = {} \/ file = {EmptyReview} THEN {{text}}
    ELSE {{text}, {ReviewWithTail(text)}}

\* A step of a process is its local computation up to and including its next
\* access to a shared file (or the exit of its agent); the agents write their
\* files while the orchestrator waits for them.

\* process p has decided to leave with an outcome and has not yet called
\* write_summary
RaceDecide(p, local, fs, oc, sc) ==
    \E ended \in IsoformatLens :
        procs' = [procs EXCEPT ![p] = [local EXCEPT !.pc = "exit", !.final_state = fs,
                                                    !.outcome = oc,
                                                    !.steps_completed = sc,
                                                    !.end_time = ended]]

\* a terminal exit of process p, reached without reading a shared file: the
\* outcome is set and write_summary opens the summary file with mode 'w';
\* json.dump has not written yet
RaceTerminate(p, local, fs, oc, sc, code) ==
    /\ code = RaceExitCode(oc)
    /\ \E ended \in IsoformatLens :
        procs' = [procs EXCEPT ![p] = [local EXCEPT !.pc = "summary", !.final_state = fs,
                                                    !.outcome = oc,
                                                    !.steps_completed = sc,
                                                    !.end_time = ended]]
    /\ summary_file' = {Truncated}
    /\ UNCHANGED summary_writes

\* write_summary of process p opens the summary file with mode 'w'
RaceSummaryOpened(p) ==
    /\ procs[p].pc = "exit"
    /\ procs' = [procs EXCEPT ![p] = [@ EXCEPT !.pc = "summary"]]
    /\ summary_file' = {Truncated}
    /\ UNCHANGED <<work, review, summary_writes>>
    /\ RaceFrame

\* json.dump of process p writes its summary from the start of the file it
\* opened, the file is closed and the process exits: nothing is left of it
\* but its exit code and what it wrote
RaceSummaryWritten(p) ==
    /\ procs[p].pc = "summary"
    /\ summary_file' = Overwrite(summary_file,
                                 RaceSummary(procs[p], procs[p].final_state,
                                             procs[p].outcome, procs[p].steps_completed))
    /\ summary_writes' = summary_writes + 1
    /\ procs' = [procs EXCEPT ![p] = [NoProcs[p] EXCEPT !.pc = "done",
                                                       !.exit_code = RaceExitCode(procs[p].outcome)]]
    /\ UNCHANGED <<work, review>>
    /\ RaceFrame

\* state == "approved" in process p: the only step is counted, the loop is
\* left, the check after the loop decides the outcome; write_summary follows
RaceIterApproved(p) ==
    /\ RaceWhileGuard(p)
    /\ RaceState(p) = "approved"
    /\ LET local == [procs[p] EXCEPT !.iteration = @ + 1, !.last_event = "approved"] IN
       IF local.iteration >= max_agent_invocations
       THEN RaceDecide(p, local, "approved", "max_agent_invocations",
                       local.steps_completed + 1)
       ELSE RaceDecide(p, local, "approved", "success", local.steps_completed + 1)
    /\ UNCHANGED <<work, review, summary_file, summary_writes>>
    /\ RaceFrame

\* state in ["initial", "needs_rework"] in process p: launch the worker (the
\* REVIEW file read for the feedback exists: no file is ever removed)
RaceIterWorker(p) ==
    /\ RaceWhileGuard(p)
    /\ RaceState(p) # "approved"
    /\ pending_role(RaceState(p)) = "worker"
    /\ procs' = [procs EXCEPT ![p] =
                   [@ EXCEPT !.iteration = @ + 1,
                             !.final_state = RaceState(p),
                             !.revision_cycles =
                                 IF RaceState(p) = "needs_rework" THEN @ + 1 ELSE @,
                             !.pc = "worker",
                             !.last_event = "worker_launched"]]
    /\ UNCHANGED <<work, review, summary_file, summary_writes>>
    /\ RaceFrame

\* state == "work_done" in process p: read the WORK file, launch the reviewer
RaceIterReviewer(p) ==
    /\ RaceWhileGuard(p)
    /\ RaceState(p) # "approved"
    /\ pending_role(RaceState(p)) = "reviewer"
    /\ Exists(work[step_num])
    /\ procs' = [procs EXCEPT ![p] =
                   [@ EXCEPT !.iteration = @ + 1,
                             !.final_state = RaceState(p),
                             !.pc = "reviewer",
                             !.last_event = "reviewer_launched"]]
    /\ UNCHANGED <<work, review, summary_file, summary_writes>>
    /\ RaceFrame

\* state == "work_done" in process p but the WORK file cannot be opened: the
\* StateFileError leaves the loop; write_summary follows
RaceIterWorkMissing(p) ==
    /\ RaceWhileGuard(p)
    /\ RaceState(p) # "approved"
    /\ pending_role(RaceState(p)) = "reviewer"
    /\ ~Exists(work[step_num])
    /\ LET local == [procs[p] EXCEPT !.iteration = @ + 1,
                                     !.last_event = "state_file_error"] IN
       RaceDecide(p, local, RaceState(p), "failure", local.steps_completed)
    /\ UNCHANGED <<work, review, summary_file, summary_writes>>
    /\ RaceFrame

\* state == "review_done" in process p: log and continue
RaceIterReviewDone(p) ==
    /\ RaceWhileGuard(p)
    /\ RaceState(p) = "review_done"
    /\ procs' = [procs EXCEPT ![p] =
                   [@ EXCEPT !.iteration = @ + 1,
                             !.final_state = RaceState(p),
                             !.last_event = "review_done"]]
    /\ UNCHANGED <<work, review, summary_file, summary_writes>>
    /\ RaceFrame

\* the while condition of process p fails
RaceLoopExhausted(p) ==
    /\ procs[p].pc = "loop"
    /\ ~(procs[p].iteration < max_agent_invocations)
    /\ LET local == [procs[p] EXCEPT !.last_event = "exhausted"] IN
       RaceTerminate(p, local, local.final_state, "max_agent_invocations",
                     local.steps_completed, 1)
    /\ UNCHANGED <<work, review>>
    /\ RaceFrame

\* the worker agent launched by process p writes the WORK file while it runs
RaceWorkerAgentWrites(p) ==
    /\ procs[p].pc = "worker"
    /\ \E written \in WorkerWrites \ {{}} :
        work' = [work EXCEPT ![step_num] = AfterWorker(@, written)]
    /\ UNCHANGED <<procs, review, summary_file, summary_writes>>
    /\ RaceFrame

\* the worker launched by process p exits 0
RaceWorkerSucceeds(p) ==
    /\ procs[p].pc = "worker"
    /\ \E proc \in Outcomes : invoke_kiro_cli(proc).ok
    /\ procs' = [procs EXCEPT ![p] =
                   [@ EXCEPT !.worker_invocations = @ + 1,
                             !.last_role = "worker",
                             !.pc = "loop",
                             !.last_event = "worker_ok"]]
    /\ UNCHANGED <<work, review, summary_file, summary_writes>>
    /\ RaceFrame

\* the worker launched by process p is killed by the timeout: the WORK file is
\* opened with mode 'w' for the fallback text
RaceWorkerTimesOut(p) ==
    /\ procs[p].pc = "worker"
    /\ \E proc \in Outcomes :
        /\ ~invoke_kiro_cli(proc).ok
        /\ IsTimeout(invoke_kiro_cli(proc).error)
    /\ work' = [work EXCEPT ![step_num] = {EmptyWork}]
    /\ procs' = [procs EXCEPT ![p] = [@ EXCEPT !.pc = "worker_fallback"]]
    /\ UNCHANGED <<review, summary_file, summary_writes>>
    /\ RaceFrame

\* the fallback text is written to the WORK file process p has opened, and
\* the launch is counted
RaceWorkerFallbackWritten(p) ==
    /\ procs[p].pc = "worker_fallback"
    /\ \E left \in WorkFallbackOver(work[step_num], WorkTimeoutFeedback(step)) :
        work' = [work EXCEPT ![step_num] = left]
    /\ procs' = [procs EXCEPT ![p] =
                   [@ EXCEPT !.worker_invocations = @ + 1,
                             !.pc = "loop",
                             !.last_event = "worker_timeout"]]
    /\ UNCHANGED <<review, summary_file, summary_writes>>
    /\ RaceFrame

\* the worker launched by process p fails otherwise: the error leaves the loop
RaceWorkerFails(p) ==
    /\ procs[p].pc = "worker"
    /\ \E proc \in Outcomes :
        /\ ~invoke_kiro_cli(proc).ok
        /\ ~IsTimeout(invoke_kiro_cli(proc).error)
    /\ LET local == [procs[p] EXCEPT !.last_event = "worker_failed"] IN
       RaceTerminate(p, local, local.final_state, "failure", local.steps_completed, 2)
    /\ UNCHANGED <<work, review>>
    /\ RaceFrame

\* the reviewer agent launched by process p writes the REVIEW file while it runs
RaceReviewerAgentWrites(p) ==
    /\ procs[p].pc = "reviewer"
    /\ \E written \in ReviewerWrites \ {{}} :
        review' = [review EXCEPT ![step_num] = AfterReviewer(@, written)]
    /\ UNCHANGED <<procs, work, summary_file, summary_writes>>
    /\ RaceFrame

\* the reviewer launched by process p exits 0
RaceReviewerSucceeds(p) ==
    /\ procs[p].pc = "reviewer"
    /\ \E proc \in Outcomes : invoke_kiro_cli(proc).ok
    /\ procs' = [procs EXCEPT ![p] =
                   [@ EXCEPT !.reviewer_invocations = @ + 1,
                             !.last_role = "reviewer",
                             !.pc = "loop",
                             !.last_event = "reviewer_ok"]]
    /\ UNCHANGED <<work, review, summary_file, summary_writes>>
    /\ RaceFrame

\* the reviewer launched by process p is killed by the timeout: the REVIEW file
\* is opened with mode 'w' for the fallback text
RaceReviewerTimesOut(p) ==
    /\ procs[p].pc = "reviewer"
    /\ \E proc \in Outcomes :
        /\ ~invoke_kiro_cli(proc).ok
        /\ IsTimeout(invoke_kiro_cli(proc).error)
    /\ review' = [review EXCEPT ![step_num] = {EmptyReview}]
    /\ procs' = [procs EXCEPT ![p] = [@ EXCEPT !.pc = "reviewer_fallback"]]
    /\ UNCHANGED <<work, summary_file, summary_writes>>
    /\ RaceFrame

\* the fallback text is written to the REVIEW file process p has opened, and
\* the launch is counted
RaceReviewerFallbackWritten(p) ==
    /\ procs[p].pc = "reviewer_fallback"
    /\ \E left \in ReviewFallbackOver(review[step_num], ReviewTimeoutFeedback) :
        review' = [review EXCEPT ![step_num] = left]
    /\ procs' = [procs EXCEPT ![p] =
                   [@ EXCEPT !.reviewer_invocations = @ + 1,
                             !.pc = "loop",
                             !.last_event = "reviewer_timeout"]]
    /\ UNCHANGED <<work, summary_file, summary_writes>>
    /\ RaceFrame

\* the reviewer launched by process p fails otherwise
RaceReviewerFails(p) ==
    /\ procs[p].pc = "reviewer"
    /\ \E proc \in Outcomes :
        /\ ~invoke_kiro_cli(proc).ok
        /\ ~IsTimeout(invoke_kiro_cli(proc).error)
    /\ LET local == [procs[p] EXCEPT !.last_event = "reviewer_failed"] IN
       RaceTerminate(p, local, local.final_state, "failure", local.steps_completed, 2)
    /\ UNCHANGED <<work, review>>
    /\ RaceFrame

\* the steps of process p
RaceStep(p) ==
    \/ RaceIterApproved(p)
    \/ RaceIterWorker(p)
    \/ RaceIterReviewer(p)
    \/ RaceIterWorkMissing(p)
    \/ RaceIterReviewDone(p)
    \/ RaceLoopExhausted(p)
    \/ RaceWorkerAgentWrites(p)
    \/ RaceWorkerSucceeds(p)
    \/ RaceWorkerTimesOut(p)
    \/ RaceWorkerFallbackWritten(p)
    \/ RaceWorkerFails(p)
    \/ RaceReviewerAgentWrites(p)
    \/ RaceReviewerSucceeds(p)
    \/ RaceReviewerTimesOut(p)
    \/ RaceReviewerFallbackWritten(p)
    \/ RaceReviewerFails(p)
    \/ RaceSummaryOpened(p)
    \/ RaceSummaryWritten(p)

RaceNext == \E p \in Procs : RaceStep(p)

SpecRace == RaceInit /\ [][RaceNext]_vars

\* ------------------------------------------------------------------ planning workflow
\* the execution workflow is not running
ExecIdle ==
    /\ plan_blocks = <<>>
    /\ max_agent_invocations = 0
    /\ pc = "idle"
    /\ steps = <<>>
    /\ parse_error = {}
    /\ step_idx = 0
    /\ iteration = 0
    /\ last_role = None
    /\ work = [n \in StepNums |-> {}]
    /\ review = [n \in StepNums |-> {}]
    /\ worker_invocations = 0
    /\ reviewer_invocations = 0
    /\ revision_cycles = 0
    /\ steps_completed = 0
    /\ final_state = None
    /\ outcome = None
    /\ exit_code = -1
    /\ summary_file = {}
    /\ summary_writes = 0
    /\ launches = NoLaunches
    /\ approved_seen = {}
    /\ review_feedback = {}
    /\ verdict_counted = FALSE
    /\ last_event = "none"
    /\ nominal = TRUE

\* (mutant) a review is looked at before a stuck file
detect_state_ReviewBeforeStuck(final, stuck, rev, draft) ==
    IF final THEN "done"
    ELSE IF rev THEN "review_ready"
    ELSE IF stuck THEN "stuck"
    ELSE IF draft THEN "draft_ready"
    ELSE "initial"

detect_state(final, stuck, rev, draft) ==
    IF final THEN "done"
    ELSE IF stuck THEN "stuck"
    ELSE IF rev THEN "review_ready"
    ELSE IF draft THEN "draft_ready"
    ELSE "initial"

\* "Check for PLAN_FINAL first", else detect_state
PlanIterationState(final, stuck, rev, draft) ==
    IF final THEN "done" ELSE detect_state(final, stuck, rev, draft)

plan_state == PlanIterationState(plan_final, plan_stuck, plan_review, plan_draft)

\* The executable passes validate_inputs (it exists and is executable); its
\* name is free.  The second path has a directory named like the error class.
KiroCliPaths == {<<"kiro-cli">>, <<"PlannerBlockedError", "kiro-cli">>}

\* how subprocess.run ends: the process exits with 0 or not, the timeout
\* expires, or the executable cannot be started (OSError, for instance
\* "Exec format error", whose text holds the path of the executable)
PlanOutcomes == Outcomes \cup {"oserror"}

\* invoke_kiro_cli of lisamarge.py under retry_with_backoff: success, or the
\* text of the exception that retry_with_backoff catches
plan_invoke_kiro_cli(proc) ==
    IF proc = "exit0" THEN [ok |-> TRUE, error |-> <<>>]
    ELSE IF proc = "timeout"
    THEN [ok |-> FALSE, error |-> <<"Timeout after", "seconds">>]
    ELSE IF proc = "oserror"
    THEN [ok |-> FALSE, error |-> <<"Exec format error">> \o kiro_cli_path]
    ELSE [ok |-> FALSE, error |-> <<"kiro-cli failed with exit code">>]

\* what a planner / reviewer process may leave behind, also when it fails
PlannerWrites == {"nothing", "draft", "stuck"}
PlanReviewerWrites == {"nothing", "review", "final"}

\* is_final_attempt=(attempt == max_retries)
is_final_attempt(att, m) == att = m

\* cmd carries --no-interactive unless is_final_attempt and intervene_on_final_retry
no_interactive(final, intervene) == ~(final /\ intervene)

\* if attempt < max_retries: sleep and go on, else return (False, str(e))
HasMoreAttempts(att, m) == att < m

\* the role the branch of orchestrate_planning taken for a state launches
plan_pending_role(st) ==
    IF st = "initial" THEN "planner"
    ELSE IF st = "draft_ready" THEN "reviewer"
    ELSE IF st = "review_ready" THEN "planner"
    ELSE None

\* The problem statement of a run that has passed validate_inputs: "given" is a
\* text on the command line or a file that can be read; "unreadable" is
\* --problem-statement-file with a path that exists and cannot be opened for
\* reading (a directory); "empty" is --problem-statement '', which leaves
\* args.problem_statement_file None.
ProblemStatements == {"given", "unreadable", "empty"}

\* orchestrate_planning is entered with any budget and any set of artifacts
PlanSession ==
    /\ ExecIdle
    /\ problem_statement \in ProblemStatements
    /\ plan_max_agent_invocations \in 0..MaxBudget
    /\ intervene_on_final_retry \in BOOLEAN
    /\ summary_writable \in BOOLEAN
    /\ plan_pc = "start"
    /\ plan_final \in BOOLEAN
    /\ plan_stuck \in BOOLEAN
    /\ plan_review \in BOOLEAN
    /\ plan_draft \in BOOLEAN
    /\ plan_review_readable \in (IF plan_review THEN BOOLEAN ELSE {TRUE})
    /\ kiro_cli_path \in KiroCliPaths
    /\ procs = NoProcs
    /\ created = <<>>
    /\ planner_invocations = 0
    /\ plan_reviewer_invocations = 0
    /\ plan_revision_cycles = 0
    /\ plan_final_state = None
    /\ plan_outcome = None
    /\ plan_exit_code = -1
    /\ plan_summary_file = {}
    /\ plan_summary_writes = 0
    /\ attempt = 0
    /\ on_attempt_calls = <<>>
    /\ sleeps = 0
    /\ attempt_errors = <<>>
    /\ retry_result = {}
    /\ plan_launches = [planner |-> 0, reviewer |-> 0]
    /\ cycles_at_dispatch = 0
    /\ plan_last_event = "none"

\* --max-retries of at least 1
PlanInit == PlanSession /\ max_retries \in 1..MaxRetries

\* --max-retries of any value argparse accepts, 0 included
PlanArgsInit == PlanSession /\ max_retries \in 0..MaxRetries

PlanSummary(pi, ri, rc, fs, oc) ==
    [planner_invocations |-> pi,
     reviewer_invocations |-> ri,
     revision_cycles |-> rc,
     final_state |-> fs,
     outcome |-> oc]

\* a terminal exit of orchestrate_planning: outcome, summary file, exit code;
\* a failure to write the summary file raises StateFileError, which main turns
\* into exit code 2
PlanTerminate(fs, oc, code) ==
    /\ plan_pc' = "done"
    /\ plan_outcome' = oc
    /\ IF summary_writable
       THEN /\ plan_summary_file' =
                  {PlanSummary(planner_invocations', plan_reviewer_invocations',
                               plan_revision_cycles', fs, oc)}
            /\ plan_summary_writes' = plan_summary_writes + 1
            /\ plan_exit_code' = code
       ELSE /\ UNCHANGED <<plan_summary_file, plan_summary_writes>>
            /\ plan_exit_code' = 2

PlanWhileGuard ==
    /\ plan_pc = "loop"
    /\ planner_invocations + plan_reviewer_invocations < plan_max_agent_invocations

PlanFiles == <<plan_final, plan_stuck, plan_review, plan_draft>>
PlanConfig == <<plan_max_agent_invocations>>
PlanCounters == <<planner_invocations, plan_reviewer_invocations, plan_revision_cycles>>
PlanExit == <<plan_outcome, plan_exit_code, plan_summary_file, plan_summary_writes>>
PlanRetry == <<attempt, on_attempt_calls, sleeps, attempt_errors, retry_result>>

\* Read problem statement: the text of the command line or of the file is
\* taken and the loop is entered; a file that cannot be read raises
\* StateFileError, which main turns into exit code 2; open(None) raises a
\* TypeError that nothing catches, and the interpreter exits with code 1.
\* Neither error sets final_state or outcome or writes the summary.
PlanReadProblemStatement ==
    /\ plan_pc = "start"
    /\ IF problem_statement = "given"
       THEN /\ plan_pc' = "loop"
            /\ UNCHANGED <<plan_exit_code, plan_last_event>>
       ELSE /\ plan_pc' = "done"
            /\ plan_exit_code' = IF problem_statement = "unreadable" THEN 2 ELSE 1
            /\ plan_last_event' = IF problem_statement = "unreadable"
                                  THEN "problem_statement_unreadable"
                                  ELSE "type_error"
    /\ UNCHANGED <<PlanFiles, PlanConfig, PlanCounters, PlanRetry, plan_final_state,
                   plan_outcome, plan_summary_file, plan_summary_writes, plan_launches,
                   cycles_at_dispatch>>
    /\ UNCHANGED <<exec_vars, env_vars, race_vars>>

\* state == "done"
PlanIterDone ==
    /\ PlanWhileGuard
    /\ plan_state = "done"
    /\ plan_final_state' = plan_state
    /\ UNCHANGED PlanCounters
    /\ PlanTerminate(plan_state, "success", 0)
    /\ plan_last_event' = "done"
    /\ UNCHANGED <<PlanFiles, PlanConfig, PlanRetry, plan_launches, cycles_at_dispatch>>
    /\ UNCHANGED <<exec_vars, env_vars, race_vars>>

\* state == "stuck"
PlanIterStuck ==
    /\ PlanWhileGuard
    /\ plan_state = "stuck"
    /\ plan_final_state' = plan_state
    /\ UNCHANGED PlanCounters
    /\ PlanTerminate(plan_state, "stuck", 3)
    /\ plan_last_event' = "stuck"
    /\ UNCHANGED <<PlanFiles, PlanConfig, PlanRetry, plan_launches, cycles_at_dispatch>>
    /\ UNCHANGED <<exec_vars, env_vars, race_vars>>

\* on_attempt(attempt) of the planner invocations
PlannerOnAttempt(from_state, att) ==
    /\ planner_invocations' = planner_invocations + 1
    /\ plan_revision_cycles' =
          IF from_state = "review_ready" /\ att = 1
          THEN plan_revision_cycles + 1 ELSE plan_revision_cycles
    /\ UNCHANGED plan_reviewer_invocations

\* on_attempt(attempt) of the reviewer invocation
\* (mutant) reviewer attempts are not counted
ReviewerOnAttemptUncounted(att) == UNCHANGED PlanCounters

ReviewerOnAttempt(att) ==
    /\ plan_reviewer_invocations' = plan_reviewer_invocations + 1
    /\ UNCHANGED <<planner_invocations, plan_revision_cycles>>

\* retry_with_backoff is entered: on_attempt(1), then the first attempt
RetryStart ==
    /\ attempt' = 1
    /\ on_attempt_calls' = <<1>>
    /\ sleeps' = 0
    /\ attempt_errors' = <<>>
    /\ retry_result' = {}

\* time.sleep(2) after a failed attempt has returned: the next round of the
\* for loop calls on_attempt and makes the next attempt
RetryAgain ==
    /\ attempt' = attempt + 1
    /\ on_attempt_calls' = Append(on_attempt_calls, attempt + 1)
    /\ sleeps' = sleeps + 1
    /\ UNCHANGED <<attempt_errors, retry_result>>

\* except Exception as e: the attempt has failed with the text error
RetryCaught(error) == attempt_errors' = Append(attempt_errors, error)

\* (mutant) the error returned is the one of the first attempt
str_e_First(errors) == errors[1]

\* str(e): the text of the exception caught last
str_e(errors) == errors[Len(errors)]

\* retry_with_backoff returns (success, result)
RetryReturn(success, result) ==
    /\ retry_result' = {[success |-> success, result |-> result]}
    /\ UNCHANGED <<attempt, on_attempt_calls, sleeps>>

\* state == "initial" or "review_ready" (the review file is read): attempt 1 of
\* the planner is launched
PlanIterPlanner ==
    /\ PlanWhileGuard
    /\ plan_state # "done" /\ plan_state # "stuck"
    /\ plan_pending_role(plan_state) = "planner"
    /\ plan_state = "review_ready" => plan_review_readable
    /\ 1 <= max_retries
    /\ plan_final_state' = plan_state
    /\ RetryStart
    /\ PlannerOnAttempt(plan_state, 1)
    /\ plan_launches' = [plan_launches EXCEPT !.planner = @ + 1]
    /\ cycles_at_dispatch' = plan_revision_cycles
    /\ plan_pc' = "planner"
    /\ plan_last_event' = "planner_launched"
    /\ UNCHANGED <<PlanFiles, PlanConfig, PlanExit>>
    /\ UNCHANGED <<exec_vars, env_vars, race_vars>>

\* state == "review_ready" but the review file cannot be read: StateFileError
\* leaves orchestrate_planning, main exits with code 2
PlanIterReviewUnreadable ==
    /\ PlanWhileGuard
    /\ plan_state = "review_ready"
    /\ ~plan_review_readable
    /\ plan_final_state' = plan_state
    /\ plan_pc' = "done"
    /\ plan_exit_code' = 2
    /\ plan_last_event' = "state_file_error"
    /\ UNCHANGED <<PlanFiles, PlanConfig, PlanCounters, PlanRetry, plan_outcome,
                   plan_summary_file, plan_summary_writes, plan_launches,
                   cycles_at_dispatch>>
    /\ UNCHANGED <<exec_vars, env_vars, race_vars>>

\* state == "draft_ready": retry_with_backoff starts, attempt 1 of the reviewer
PlanIterReviewer ==
    /\ PlanWhileGuard
    /\ plan_state # "done" /\ plan_state # "stuck"
    /\ plan_pending_role(plan_state) = "reviewer"
    /\ 1 <= max_retries
    /\ plan_final_state' = plan_state
    /\ RetryStart
    /\ ReviewerOnAttempt(1)
    /\ plan_launches' = [plan_launches EXCEPT !.reviewer = @ + 1]
    /\ cycles_at_dispatch' = plan_revision_cycles
    /\ plan_pc' = "reviewer"
    /\ plan_last_event' = "reviewer_launched"
    /\ UNCHANGED <<PlanFiles, PlanConfig, PlanExit>>
    /\ UNCHANGED <<exec_vars, env_vars, race_vars>>

\* range(1, max_retries + 1) is empty: retry_with_backoff makes no attempt and
\* falls off its end, returning None; "success, result = None" raises
\* TypeError, which main does not catch: the interpreter prints the traceback
\* and exits with code 1, no outcome is recorded and no summary is written
PlanRetryReturnsNone ==
    /\ PlanWhileGuard
    /\ plan_state # "done" /\ plan_state # "stuck"
    /\ plan_pending_role(plan_state) # None
    /\ plan_state = "review_ready" => plan_review_readable
    /\ ~(1 <= max_retries)
    /\ plan_final_state' = plan_state
    /\ retry_result' = {}
    /\ plan_pc' = "done"
    /\ plan_exit_code' = 1
    /\ plan_last_event' = "type_error"
    /\ UNCHANGED <<attempt, on_attempt_calls, sleeps, attempt_errors>>
    /\ UNCHANGED <<PlanFiles, PlanConfig, PlanCounters, plan_outcome,
                   plan_summary_file, plan_summary_writes, plan_launches,
                   cycles_at_dispatch>>
    /\ UNCHANGED <<exec_vars, env_vars, race_vars>>

\* the while condition fails: "Max agent invocations exceeded"
PlanBudgetExhausted ==
    /\ plan_pc = "loop"
    /\ ~(planner_invocations + plan_reviewer_invocations < plan_max_agent_invocations)
    /\ UNCHANGED PlanCounters
    /\ PlanTerminate(plan_final_state, "max_iterations", 1)
    /\ plan_last_event' = "exhausted"
    /\ UNCHANGED <<PlanFiles, PlanConfig, PlanRetry, plan_final_state, plan_launches,
                   cycles_at_dispatch>>
    /\ UNCHANGED <<exec_vars, env_vars, race_vars>>

PlannerWrote(written) ==
    /\ plan_draft' = (plan_draft \/ written = "draft")
    /\ plan_stuck' = (plan_stuck \/ written = "stuck")
    /\ UNCHANGED <<plan_final, plan_review>>

PlanReviewerWrote(written) ==
    /\ plan_review' = (plan_review \/ written = "review")
    /\ plan_final' = (plan_final \/ written = "final")
    /\ UNCHANGED <<plan_draft, plan_stuck>>

\* the code after a successful planner invocation
AfterPlannerSuccess(from_state) ==
    IF from_state = "review_ready"
    THEN /\ planner_invocations' = planner_invocations + 1
         /\ plan_revision_cycles' = plan_revision_cycles + 1
         /\ UNCHANGED plan_reviewer_invocations
    ELSE UNCHANGED PlanCounters

\* the planner attempt exits 0: retry_with_backoff returns (True, result)
PlanPlannerSucceeds ==
    /\ plan_pc = "planner"
    /\ \E proc \in PlanOutcomes, written \in PlannerWrites :
        /\ proc = "oserror" => written = "nothing"
        /\ plan_invoke_kiro_cli(proc).ok
        /\ PlannerWrote(written)
    /\ RetryReturn(TRUE, <<>>)
    /\ UNCHANGED attempt_errors
    /\ AfterPlannerSuccess(plan_final_state)
    /\ plan_pc' = "loop"
    /\ plan_last_event' = "planner_ok"
    /\ UNCHANGED <<PlanConfig, PlanExit, plan_final_state, plan_launches,
                   cycles_at_dispatch>>
    /\ UNCHANGED <<exec_vars, env_vars, race_vars>>

\* the planner attempt fails before the last one: the exception is caught and
\* time.sleep(2) begins; no agent runs, what the attempt wrote is on disk
PlanPlannerSleeps ==
    /\ plan_pc = "planner"
    /\ HasMoreAttempts(attempt, max_retries)
    /\ \E proc \in PlanOutcomes, written \in PlannerWrites :
        /\ proc = "oserror" => written = "nothing"
        /\ ~plan_invoke_kiro_cli(proc).ok
        /\ PlannerWrote(written)
        /\ RetryCaught(plan_invoke_kiro_cli(proc).error)
    /\ plan_pc' = "planner_sleep"
    /\ UNCHANGED <<attempt, on_attempt_calls, sleeps, retry_result>>
    /\ UNCHANGED <<PlanConfig, PlanCounters, PlanExit, plan_final_state,
                   plan_launches, cycles_at_dispatch, plan_last_event>>
    /\ UNCHANGED <<exec_vars, env_vars, race_vars>>

\* the sleep after a failed planner attempt is over: on_attempt, next attempt
PlanPlannerRetries ==
    /\ plan_pc = "planner_sleep"
    /\ plan_pc' = "planner"
    /\ UNCHANGED PlanFiles
    /\ RetryAgain
    /\ PlannerOnAttempt(plan_final_state, attempt + 1)
    /\ plan_launches' = [plan_launches EXCEPT !.planner = @ + 1]
    /\ plan_last_event' = "planner_retry"
    /\ UNCHANGED <<PlanConfig, PlanExit, plan_final_state, cycles_at_dispatch>>
    /\ UNCHANGED <<exec_vars, env_vars, race_vars>>

\* the last planner attempt fails: retry_with_backoff returns (False, str(e))
PlanPlannerExhausted ==
    /\ plan_pc = "planner"
    /\ ~HasMoreAttempts(attempt, max_retries)
    /\ \E proc \in PlanOutcomes, written \in PlannerWrites :
        /\ proc = "oserror" => written = "nothing"
        /\ ~plan_invoke_kiro_cli(proc).ok
        /\ PlannerWrote(written)
        /\ RetryCaught(plan_invoke_kiro_cli(proc).error)
        /\ RetryReturn(FALSE, str_e(attempt_errors'))
        /\ UNCHANGED PlanCounters
        /\ IF Contains(plan_invoke_kiro_cli(proc).error, "PlannerBlockedError")
           THEN PlanTerminate(plan_final_state, "blocked", 3)
           ELSE PlanTerminate(plan_final_state, "failure", 2)
    /\ plan_last_event' = "planner_failed"
    /\ UNCHANGED <<PlanConfig, plan_final_state, plan_launches, cycles_at_dispatch>>
    /\ UNCHANGED <<exec_vars, env_vars, race_vars>>

\* the reviewer attempt exits 0
PlanReviewerSucceeds ==
    /\ plan_pc = "reviewer"
    /\ \E proc \in PlanOutcomes, written \in PlanReviewerWrites :
        /\ proc = "oserror" => written = "nothing"
        /\ plan_invoke_kiro_cli(proc).ok
        /\ PlanReviewerWrote(written)
    /\ RetryReturn(TRUE, <<>>)
    /\ UNCHANGED attempt_errors
    /\ plan_pc' = "loop"
    /\ plan_last_event' = "reviewer_ok"
    /\ UNCHANGED <<PlanConfig, PlanCounters, PlanExit, plan_final_state,
                   plan_launches, cycles_at_dispatch>>
    /\ UNCHANGED <<exec_vars, env_vars, race_vars>>

\* the reviewer attempt fails before the last one: the exception is caught and
\* time.sleep(2) begins; no agent runs, what the attempt wrote is on disk
PlanReviewerSleeps ==
    /\ plan_pc = "reviewer"
    /\ HasMoreAttempts(attempt, max_retries)
    /\ \E proc \in PlanOutcomes, written \in PlanReviewerWrites :
        /\ proc = "oserror" => written = "nothing"
        /\ ~plan_invoke_kiro_cli(proc).ok
        /\ PlanReviewerWrote(written)
        /\ RetryCaught(plan_invoke_kiro_cli(proc).error)
    /\ plan_pc' = "reviewer_sleep"
    /\ UNCHANGED <<attempt, on_attempt_calls, sleeps, retry_result>>
    /\ UNCHANGED <<PlanConfig, PlanCounters, PlanExit, plan_final_state,
                   plan_launches, cycles_at_dispatch, plan_last_event>>
    /\ UNCHANGED <<exec_vars, env_vars, race_vars>>

\* the sleep after a failed reviewer attempt is over: on_attempt, next attempt
PlanReviewerRetries ==
    /\ plan_pc = "reviewer_sleep"
    /\ plan_pc' = "reviewer"
    /\ UNCHANGED PlanFiles
    /\ RetryAgain
    /\ ReviewerOnAttempt(attempt + 1)
    /\ plan_launches' = [plan_launches EXCEPT !.reviewer = @ + 1]
    /\ plan_last_event' = "reviewer_retry"
    /\ UNCHANGED <<PlanConfig, PlanExit, plan_final_state, cycles_at_dispatch>>
    /\ UNCHANGED <<exec_vars, env_vars, race_vars>>

\* the last reviewer attempt fails
PlanReviewerExhausted ==
    /\ plan_pc = "reviewer"
    /\ ~HasMoreAttempts(attempt, max_retries)
    /\ \E proc \in PlanOutcomes, written \in PlanReviewerWrites :
        /\ proc = "oserror" => written = "nothing"
        /\ ~plan_invoke_kiro_cli(proc).ok
        /\ PlanReviewerWrote(written)
        /\ RetryCaught(plan_invoke_kiro_cli(proc).error)
        /\ RetryReturn(FALSE, str_e(attempt_errors'))
    /\ UNCHANGED PlanCounters
    /\ PlanTerminate(plan_final_state, "failure", 2)
    /\ plan_last_event' = "reviewer_failed"
    /\ UNCHANGED <<PlanConfig, plan_final_state, plan_launches, cycles_at_dispatch>>
    /\ UNCHANGED <<exec_vars, env_vars, race_vars>>

PlanNext ==
    \/ PlanReadProblemStatement
    \/ PlanIterDone
    \/ PlanIterStuck
    \/ PlanIterPlanner
    \/ PlanIterReviewUnreadable
    \/ PlanIterReviewer
    \/ PlanBudgetExhausted
    \/ PlanPlannerSucceeds
    \/ PlanPlannerSleeps
    \/ PlanPlannerRetries
    \/ PlanPlannerExhausted
    \/ PlanReviewerSucceeds
    \/ PlanReviewerSleeps
    \/ PlanReviewerRetries
    \/ PlanReviewerExhausted

SpecPlan == PlanInit /\ [][PlanNext]_vars

\* lisamarge.py with any --max-retries
PlanArgsNext == PlanNext \/ PlanRetryReturnsNone

SpecPlanArgs == PlanArgsInit /\ [][PlanArgsNext]_vars


\* ------------------------------------------------------------------ either workflow
\* one run of either script
SpecBoth == (ExecInit \/ PlanInit) /\ [][ExecNext \/ PlanNext]_vars

\* One run of either script with the scheduling of the scripts: the
\* orchestrator is a sequential program that takes its next step whenever it has
\* one, and every agent launch returns, by exiting or by the timeout of
\* subprocess.run.  Execution sessions start fresh here, planning sessions from
\* any set of artifacts.
FairInit == (ExecInit /\ nominal) \/ PlanInit

SpecFair == FairInit /\ [][ExecNext \/ PlanNext]_vars /\ WF_vars(ExecNext \/ PlanNext)


\* ------------------------------------------------------------------ the detectors alone
\* The two state detectors applied once to artifacts drawn from bounded sets:
\* any REVIEW file of at most two lines with or without a WORK file, and the
\* planning artifacts of any subset created in any order.
ReviewLines ==
    {<<>>, <<APPROVED>>, <<NEEDS_REWORK>>, <<APPROVED, NEEDS_REWORK>>,
     <<NEEDS_REWORK, ": fix X">>, <<APPROVED, "looks good">>, <<"Looks okay">>}
ReviewContents == UNION {[1..n -> ReviewLines] : n \in 0..2}
ReviewFiles == {{}} \cup {{c} : c \in ReviewContents}
WorkFiles == {{}, {AgentWork}}

ArtifactNames == {"final", "stuck", "review", "draft"}
CreationOrders ==
    {s \in UNION {[1..n -> ArtifactNames] : n \in 0..Cardinality(ArtifactNames)} :
        \A i, j \in 1..Len(s) : i # j => s[i] # s[j]}
Created == {created[i] : i \in 1..Len(created)}

DetectInit ==
    \* execution side: step 1 of a one-step plan
    /\ pc = "detect"
    /\ plan_blocks = <<1>>
    /\ steps = parse_plan_file(plan_blocks).steps
    /\ parse_error = {}
    /\ step_idx = 1
    /\ max_agent_invocations = 0
    /\ iteration = 0
    /\ last_role = None
    /\ worker_invocations = 0
    /\ reviewer_invocations = 0
    /\ revision_cycles = 0
    /\ steps_completed = 0
    /\ final_state = None
    /\ outcome = None
    /\ exit_code = -1
    /\ summary_file = {}
    /\ summary_writes = 0
    /\ launches = NoLaunches
    /\ approved_seen = {}
    /\ review_feedback = {}
    /\ verdict_counted = FALSE
    /\ last_event = "none"
    /\ \E r \in ReviewFiles, w \in WorkFiles :
        /\ review = [n \in StepNums |-> IF n = 1 THEN r ELSE {}]
        /\ work = [n \in StepNums |-> IF n = 1 THEN w ELSE {}]
    /\ nominal = TRUE
    \* planning side
    /\ plan_pc = "detect"
    /\ created \in CreationOrders
    /\ plan_final = ("final" \in Created)
    /\ plan_stuck = ("stuck" \in Created)
    /\ plan_review = ("review" \in Created)
    /\ plan_draft = ("draft" \in Created)
    /\ plan_max_agent_invocations = 0
    /\ planner_invocations = 0
    /\ plan_reviewer_invocations = 0
    /\ plan_revision_cycles = 0
    /\ plan_final_state = None
    /\ plan_outcome = None
    /\ plan_exit_code = -1
    /\ plan_summary_file = {}
    /\ plan_summary_writes = 0
    /\ attempt = 0
    /\ on_attempt_calls = <<>>
    /\ sleeps = 0
    /\ attempt_errors = <<>>
    /\ retry_result = {}
    /\ plan_launches = [planner |-> 0, reviewer |-> 0]
    /\ cycles_at_dispatch = 0
    /\ plan_last_event = "none"
    /\ max_retries = 1
    /\ intervene_on_final_retry = FALSE
    /\ summary_writable = TRUE
    /\ plan_review_readable = TRUE
    /\ kiro_cli_path = <<"kiro-cli">>
    /\ problem_statement = "given"
    /\ procs = NoProcs

\* state = detect_step_state(args.plan_name, step_num)
DetectStep ==
    /\ pc = "detect"
    /\ final_state' = detect_step_state(review[step_num], work[step_num])
    /\ pc' = "detected"
    /\ UNCHANGED <<plan_blocks, max_agent_invocations, steps, step_idx, iteration,
                   last_role, work, review, worker_invocations, reviewer_invocations,
                   revision_cycles, steps_completed, outcome, exit_code, summary_file,
                   summary_writes, launches, approved_seen, last_event, nominal>>
    /\ UNCHANGED <<plan_vars, env_vars, race_vars, parse_error, review_feedback, verdict_counted>>

\* state = detect_state(args.plan_name)
DetectPlan ==
    /\ plan_pc = "detect"
    /\ plan_final_state' = detect_state(plan_final, plan_stuck, plan_review, plan_draft)
    /\ plan_pc' = "detected"
    /\ UNCHANGED <<PlanFiles, PlanConfig, PlanCounters, PlanExit, PlanRetry,
                   plan_launches, cycles_at_dispatch, plan_last_event>>
    /\ UNCHANGED <<exec_vars, env_vars, race_vars>>

DetectNext ==
    \/ DetectStep
    \/ DetectPlan

SpecDetect == DetectInit /\ [][DetectNext]_vars


\* ================================================================== claims
IsLastStep == step_idx = Len(steps)
LaterSteps == {steps[k].step_num : k \in (step_idx + 1)..Len(steps)}
Unlaunched == [worker |-> 0, reviewer |-> 0]
FirstLine(file) == readline(Content(file))

\* C1: whenever a step is detected as approved, at any iteration number up to
\* and including the budget, steps_completed grows by exactly one and the run
\* moves to the next step or, after the last step, ends with success and
\* exit code 0.
C1_ApprovedAdvancesOrSucceeds ==
    [][approved_seen' # approved_seen =>
         /\ steps_completed' = steps_completed + 1
         /\ IF IsLastStep
            THEN pc' = "done" /\ outcome' = "success" /\ exit_code' = 0
            ELSE pc' = "loop" /\ step_idx' = step_idx + 1]_vars

\* C2: when the planning loop takes its decision right after an invocation has
\* returned and PLAN_FINAL exists, the run ends with success and exit code 0,
\* also when that invocation brought the count up to the budget.
C2_ApprovalOnFinalInvocationHonored ==
    [][(/\ plan_pc = "loop"
        /\ plan_last_event \in {"planner_ok", "reviewer_ok"}
        /\ plan_final
        /\ plan_pc' = "done")
       => (plan_outcome' = "success" /\ plan_exit_code' = 0)]_vars

\* C3: the number of agent processes launched by the planning run, retries
\* included, never exceeds max_agent_invocations.
C3_LaunchesWithinBudget ==
    plan_launches.planner + plan_launches.reviewer <= plan_max_agent_invocations

\* C4: a reviewer timeout writes a REVIEW file whose first line begins with
\* the rework marker and counts one reviewer invocation, and the next iteration
\* of the step acts on needs_rework and launches the worker.
C4_ReviewerTimeoutLeadsToRework ==
    [][/\ (pc = "reviewer" /\ last_event' = "reviewer_timeout") =>
             /\ Exists(review'[step_num])
             /\ Len(FirstLine(review'[step_num])) > 0
             /\ FirstLine(review'[step_num])[1] = NEEDS_REWORK
             /\ reviewer_invocations' = reviewer_invocations + 1
       /\ (pc = "loop" /\ last_event = "reviewer_timeout" /\ WhileGuard) =>
             (final_state' = "needs_rework" /\ pc' = "worker")]_vars

C6_ActedStateIsDetectedState ==
    [][(WhileGuard /\ (last_role = "worker" => Exists(work[step_num]))) =>
         final_state' = detect_step_state(review[step_num], work[step_num])]_vars

\* C7: an invocation of the planner dispatched from review_ready raises
\* revision_cycles by exactly one, however it ends.
C7_OneRevisionCyclePerDispatch ==
    [][(/\ plan_pc \in {"planner", "planner_sleep"}
        /\ plan_final_state = "review_ready"
        /\ plan_pc' \notin {"planner", "planner_sleep"})
       => plan_revision_cycles' = cycles_at_dispatch + 1]_vars

\* C8: when the iterations of a step are used up without the step having been
\* detected as approved, the run ends there with exit code 1 and outcome
\* max_agent_invocations, the summary is written, and no role has been or will
\* be launched for a later step.
C8_ExhaustedStepEndsRun ==
    [][(pc = "loop" /\ ~(iteration < max_agent_invocations)) =>
         /\ pc' = "done"
         /\ exit_code' = 1
         /\ outcome' = "max_agent_invocations"
         /\ summary_writes' = summary_writes + 1
         /\ Exists(summary_file')
         /\ Content(summary_file').outcome = "max_agent_invocations"
         /\ \A n \in LaterSteps : launches'[n] = Unlaunched]_vars

C8_Witness ==
    /\ pc = "done"
    /\ last_event = "exhausted"
    /\ exit_code = 1
    /\ max_agent_invocations > 1
    /\ step_idx < Len(steps)
    /\ launches[step_num].reviewer > 0

\* C9: a fresh session in which every worker exits 0 having written WORK and
\* every reviewer exits 0 having written an APPROVED review, and whose budget is
\* above the three iterations such a step takes (worker, reviewer, detection of
\* the approval), ends with one worker and one reviewer launch per step,
\* steps_completed equal to the number of steps, success and exit code 0.
C9_NominalRunSucceeds ==
    (/\ pc = "done"
     /\ nominal
     /\ steps # <<>>
     /\ max_agent_invocations > 3)
    => /\ exit_code = 0
       /\ outcome = "success"
       /\ steps_completed = Len(steps)
       /\ \A k \in 1..Len(steps) :
             launches[steps[k].step_num] = [worker |-> 1, reviewer |-> 1]
       /\ worker_invocations = Len(steps)
       /\ reviewer_invocations = Len(steps)

C9_Witness ==
    /\ pc = "done"
    /\ nominal
    /\ Len(steps) > 1
    /\ max_agent_invocations > 3
    /\ exit_code = 0

\* C10: the steps are taken in ascending step number, and no worker or reviewer
\* is launched for a step before every step with a smaller number has been
\* detected as approved.
C10_StepsInOrderAfterApproval ==
    /\ \A k \in 2..Len(steps) : steps[k - 1].step_num < steps[k].step_num
    /\ \A n \in StepNums :
          launches[n] # Unlaunched => \A m \in 1..(n - 1) : m \in approved_seen
    /\ pc \in {"loop", "worker", "reviewer"} =>
          \A k \in 1..(step_idx - 1) : steps[k].step_num \in approved_seen

C10_Witness ==
    /\ Len(plan_blocks) > 1
    /\ plan_blocks[1] > plan_blocks[2]
    /\ \E n \in StepNums : n > 1 /\ launches[n].reviewer > 0

\* C11: detect_state returns exactly one state for every set of existing
\* planning artifacts, by the priority FINAL, STUCK, REVIEW, DRAFT, else initial,
\* whatever the order in which the artifacts were created.
C11_DetectStateByPriority ==
    plan_pc = "detected" =>
        /\ plan_final_state \in {"done", "stuck", "review_ready", "draft_ready", "initial"}
        /\ (plan_final_state = "done") <=> ("final" \in Created)
        /\ (plan_final_state = "stuck") <=> ("stuck" \in Created /\ "final" \notin Created)
        /\ (plan_final_state = "review_ready") <=>
              ("review" \in Created /\ Created \cap {"final", "stuck"} = {})
        /\ (plan_final_state = "draft_ready") <=>
              ("draft" \in Created /\ Created \cap {"final", "stuck", "review"} = {})
        /\ (plan_final_state = "initial") <=> (Created = {})

C11_Witness ==
    /\ plan_pc = "detected"
    /\ created = <<"review", "stuck", "draft">>
    /\ plan_final_state = "stuck"

\* C12: the detected state of a step is approved when the REVIEW file exists
\* and its first line contains the approval marker (with or without the rework
\* marker), needs_rework when the first line contains only the rework marker,
\* review_done when it contains neither, whatever the later lines say and
\* whether or not WORK exists; without a REVIEW file it is work_done when WORK
\* exists and initial otherwise.
C12_DetectStepStateByFirstLine ==
    pc = "detected" =>
        LET r == review[step_num]
            w == work[step_num]
            has_line == Exists(r) /\ Len(Content(r)) > 0
            approved_first == has_line /\ Contains(Content(r)[1], APPROVED)
            rework_first == has_line /\ Contains(Content(r)[1], NEEDS_REWORK)
        IN  /\ (Exists(r) /\ approved_first) => final_state = "approved"
            /\ (Exists(r) /\ ~approved_first /\ rework_first) => final_state = "needs_rework"
            /\ (Exists(r) /\ ~approved_first /\ ~rework_first) => final_state = "review_done"
            /\ (~Exists(r) /\ Exists(w)) => final_state = "work_done"
            /\ (~Exists(r) /\ ~Exists(w)) => final_state = "initial"

C12_Witness ==
    /\ pc = "detected"
    /\ ~Exists(work[step_num])
    /\ review[step_num] = {<< <<"Looks okay">>, <<APPROVED>> >>}
    /\ final_state = "review_done"

\* C13: an iteration of either loop launches at most one role, the one its state
\* calls for: execution the worker from initial and needs_rework, the reviewer
\* from work_done, nobody from review_done and approved; planning the planner
\* from initial and review_ready, the reviewer from draft_ready, nobody from done
\* and stuck.  (An iteration that ends in a state-file error launches nobody; the
\* retries of a planning invocation launch the role of that invocation again.)
C13_OneRolePerIterationByState ==
    [][/\ WhileGuard =>
            LET w == launches'[step_num].worker - launches[step_num].worker
                r == launches'[step_num].reviewer - launches[step_num].reviewer
            IN  /\ \A n \in StepNums \ {step_num} : launches'[n] = launches[n]
                /\ w \in {0, 1} /\ r \in {0, 1} /\ w + r <= 1
                /\ (w = 1) <=> (final_state' \in {"initial", "needs_rework"})
                /\ (r = 1) => final_state' = "work_done"
                /\ (final_state' = "work_done" /\ last_event' # "state_file_error")
                      => r = 1
                /\ final_state' \in {"review_done", "approved"} => w + r = 0
       /\ ~WhileGuard => launches' = launches
       /\ PlanWhileGuard =>
            LET p == plan_launches'.planner - plan_launches.planner
                r == plan_launches'.reviewer - plan_launches.reviewer
            IN  /\ p \in {0, 1} /\ r \in {0, 1} /\ p + r <= 1
                /\ (p = 1) => plan_final_state' \in {"initial", "review_ready"}
                /\ (/\ plan_final_state' \in {"initial", "review_ready"}
                    /\ plan_last_event' # "state_file_error") => p = 1
                /\ (r = 1) <=> (plan_final_state' = "draft_ready")
                /\ plan_final_state' \in {"done", "stuck"} => p + r = 0
       /\ plan_pc \in {"planner", "planner_sleep"} =>
            /\ plan_launches'.reviewer = plan_launches.reviewer
            /\ plan_final_state \in {"initial", "review_ready"}
       /\ plan_pc \in {"reviewer", "reviewer_sleep"} =>
            /\ plan_launches'.planner = plan_launches.planner
            /\ plan_final_state = "draft_ready"
       /\ (/\ plan_pc \notin {"planner", "planner_sleep", "reviewer", "reviewer_sleep"}
           /\ ~PlanWhileGuard)
            => plan_launches' = plan_launches]_vars

C13_Witness ==
    /\ pc = "worker"
    /\ final_state = "needs_rework"
    /\ launches[step_num].worker = 2
    /\ launches[step_num].reviewer > 0

\* C14: retry_with_backoff with max_retries = m >= 1 calls on_attempt with
\* 1, 2, ... before each attempt and sleeps between two attempts: a success on
\* attempt k <= m returns (True, value) after k on_attempt calls and k - 1
\* sleeps; m failures return (False, text of the last error), the error of
\* attempt m, after m on_attempt calls and m - 1 sleeps; there is never an
\* attempt beyond m.
C14_RetryWithBackoff ==
    /\ plan_pc \in {"planner", "planner_sleep", "reviewer", "reviewer_sleep"} =>
          /\ attempt \in 1..max_retries
          /\ on_attempt_calls = [i \in 1..attempt |-> i]
          /\ sleeps = attempt - 1
          /\ Len(attempt_errors) =
                IF plan_pc \in {"planner_sleep", "reviewer_sleep"}
                THEN attempt ELSE attempt - 1
          /\ plan_pc \in {"planner_sleep", "reviewer_sleep"} => attempt < max_retries
          /\ retry_result = {}
    /\ retry_result # {} =>
          LET res == Content(retry_result)
              k == Len(on_attempt_calls)
          IN  /\ k = attempt
              /\ on_attempt_calls = [i \in 1..k |-> i]
              /\ sleeps = k - 1
              /\ res.success =>
                    /\ k \in 1..max_retries
                    /\ res.result = <<>>
                    /\ Len(attempt_errors) = k - 1
              /\ ~res.success =>
                    /\ k = max_retries
                    /\ Len(attempt_errors) = max_retries
                    /\ res.result = attempt_errors[max_retries]
                    /\ res.result \in {plan_invoke_kiro_cli(proc).error :
                                         proc \in PlanOutcomes \ {"exit0"}}

\* three failures whose first and last errors differ: the text returned is the
\* one of attempt 3
C14_Witness ==
    /\ max_retries = 3
    /\ retry_result # {}
    /\ ~Content(retry_result).success
    /\ on_attempt_calls = <<1, 2, 3>>
    /\ sleeps = 2
    /\ Len(attempt_errors) = 3
    /\ attempt_errors[1] # attempt_errors[3]
    /\ Content(retry_result).result = <<"Timeout after", "seconds">>

\* C15: a launch omits --no-interactive if and only if the interactive fallback
\* is enabled and the launch is attempt number max_retries of its invocation
\* (the execution workflow passes its iteration number as the attempt).
C15_InteractiveOnlyOnFinalRetry ==
    [][(pc = "loop" /\ pc' \in {"worker", "reviewer"}) =>
          (~no_interactive(exec_is_final_attempt(iteration'), intervene_on_final_retry)
              <=> (intervene_on_final_retry /\ iteration' = max_retries))]_vars

\* C16: a launch that exits non-zero ends the run, with outcome failure and exit
\* code 2, only when its invocation has made max_retries attempts.
C16_NonZeroExitRetried ==
    [][/\ (pc = "worker" /\ last_event' = "worker_failed") =>
             /\ outcome' = "failure" /\ exit_code' = 2
             /\ launches[step_num].worker >= max_retries
       /\ (pc = "reviewer" /\ last_event' = "reviewer_failed") =>
             /\ outcome' = "failure" /\ exit_code' = 2
             /\ launches[step_num].reviewer >= max_retries]_vars

\* C17: an invocation whose only attempt ended by timeout does not end the
\* planning run with outcome failure.
C17_TimeoutNeverFailsRun ==
    (/\ retry_result # {}
     /\ Len(on_attempt_calls) = 1
     /\ ~Content(retry_result).success
     /\ Contains(Content(retry_result).result, "Timeout after"))
    => (plan_outcome # "failure" /\ plan_exit_code # 2)

\* C18: a planning run that has exited has written its summary exactly once,
\* unless the summary file could not be written.
C18_SummaryOnEveryExit ==
    plan_pc = "done" => (plan_summary_writes = 1 \/ ~summary_writable)

\* C19: an iteration that fails to read the review artifact ends the run with
\* exit code 2, without a retry, after a summary with outcome failure has been
\* recorded (the summary file being writable).
C19_StateFileErrorRecorded ==
    [][(/\ PlanWhileGuard
        /\ plan_state = "review_ready"
        /\ ~plan_review_readable
        /\ summary_writable)
       => /\ plan_pc' = "done"
          /\ plan_exit_code' = 2
          /\ plan_launches' = plan_launches
          /\ plan_outcome' = "failure"
          /\ Exists(plan_summary_file')
          /\ Content(plan_summary_file').outcome = "failure"]_vars

\* C20: when the summary file cannot be written the exit code is still the one
\* of the outcome decided: 0 for success, 1 for max_iterations, 3 for stuck and
\* blocked, 2 for failure.
C20_SummaryFailureKeepsExitCode ==
    [][(plan_pc # "done" /\ plan_pc' = "done" /\ ~summary_writable) =>
          /\ plan_outcome' = "success" => plan_exit_code' = 0
          /\ plan_outcome' = "max_iterations" => plan_exit_code' = 1
          /\ plan_outcome' \in {"stuck", "blocked"} => plan_exit_code' = 3
          /\ plan_outcome' = "failure" => plan_exit_code' = 2]_vars

\* C28: every run of either workflow reaches a terminal exit; an iteration of
\* the planning loop that does not exit raises the invocation count by at least
\* one by the time the loop is back at its head, and an execution step never
\* uses more iterations than the budget.
C28_EveryRunTerminates ==
    /\ <>(pc = "done" \/ plan_pc = "done")
    /\ [][/\ (PlanWhileGuard /\ plan_pc' # "done") =>
               planner_invocations' + plan_reviewer_invocations'
                  > planner_invocations + plan_reviewer_invocations
          /\ planner_invocations' >= planner_invocations
          /\ plan_reviewer_invocations' >= plan_reviewer_invocations
          /\ (pc \in {"loop", "worker", "reviewer"}) =>
               iteration' <= max_agent_invocations]_vars

C28_Witness ==
    /\ plan_pc = "done"
    /\ plan_last_event = "exhausted"
    /\ plan_exit_code = 1
    /\ plan_max_agent_invocations >= 2
    /\ plan_launches.planner >= 1
    /\ plan_launches.reviewer >= 1

\* C21: the outcome tag recorded in the summary at a terminal exit of either
\* workflow is one of success, failure, blocked, max_iterations.
C21_OutcomeTagInSet ==
    /\ Exists(summary_file) =>
         Content(summary_file).outcome
            \in {"success", "failure", "blocked", "max_iterations"}
    /\ Exists(plan_summary_file) =>
         Content(plan_summary_file).outcome
            \in {"success", "failure", "blocked", "max_iterations"}

\* C22: exit code 0 is returned only after approval was observed (planning:
\* PLAN_FINAL existed when the loop last checked; execution: every step was
\* detected as approved, and steps_completed is the number of steps); exit code
\* 1 only when the budget was reached without that; exit code 3 only when
\* planning detected stuck with no approval artifact present.
C22_ExitCodeMeansWhatItSays ==
    /\ exit_code = 0 =>
         /\ \A k \in 1..Len(steps) : steps[k].step_num \in approved_seen
         /\ steps_completed = Len(steps)
    /\ exit_code = 1 =>
         /\ iteration >= max_agent_invocations
         /\ ~(\A k \in 1..Len(steps) : steps[k].step_num \in approved_seen)
    /\ exit_code # 3
    /\ plan_exit_code = 0 => (plan_final /\ plan_final_state = "done")
    /\ plan_exit_code = 1 =>
         /\ planner_invocations + plan_reviewer_invocations
               >= plan_max_agent_invocations
         /\ plan_final_state # "done"
    /\ plan_exit_code = 3 => (plan_final_state = "stuck" /\ ~plan_final)

\* C23: the blocked-error path is unreachable: no run records outcome blocked,
\* execution never exits with code 3, and planning exits with code 3 only by
\* detecting the stuck state.
C23_BlockedPathUnreachable ==
    /\ outcome # "blocked"
    /\ plan_outcome # "blocked"
    /\ Exists(summary_file) => Content(summary_file).outcome # "blocked"
    /\ Exists(plan_summary_file) => Content(plan_summary_file).outcome # "blocked"
    /\ exit_code # 3
    /\ plan_exit_code = 3 =>
         /\ plan_last_event = "stuck"
         /\ plan_final_state = "stuck"
         /\ plan_outcome = "stuck"

\* C24: parse_plan_file accepts a plan exactly when the numbers of its n >= 1
\* step blocks are a permutation of 1..n, and then returns the n steps sorted
\* ascending by step number whatever their order in the file.
C24_AcceptsPermutationsSorted ==
    (pc # "start" /\ Len(plan_blocks) >= 1) =>
        LET n == Len(plan_blocks)
            nums == {plan_blocks[i] : i \in 1..n}
        IN  /\ (pc = "loop") <=> (nums = 1..n)
            /\ pc = "loop" =>
                 /\ Len(steps) = n
                 /\ \A k \in 1..n :
                      /\ steps[k].step_num = k
                      /\ plan_blocks[steps[k].description] = k

C24_Witness ==
    /\ pc = "loop"
    /\ plan_blocks = <<3, 1, 2>>
    /\ Len(steps) = 3
    /\ steps[1].description = 2

\* C25: parse_plan_file rejects every plan whose block numbers are not a
\* permutation of 1..n with a fatal error: a duplicate-step error naming a
\* number that occurs twice if there is one, otherwise a non-sequential error
\* reporting every number of 1..n missing from the plan.
C25_RejectsWithDuplicateOrMissing ==
    (pc # "start" /\ Len(plan_blocks) >= 1) =>
        LET n == Len(plan_blocks)
            nums == {plan_blocks[i] : i \in 1..n}
            twice == {plan_blocks[i] : i \in {j \in 1..n :
                         \E k \in 1..n : k # j /\ plan_blocks[k] = plan_blocks[j]}}
        IN  nums # 1..n =>
              /\ pc = "done"
              /\ exit_code = 2
              /\ parse_error # {}
              /\ IF twice # {}
                 THEN /\ Content(parse_error).kind = "duplicate"
                      /\ Cardinality(Content(parse_error).detail) = 1
                      /\ Content(parse_error).detail \subseteq twice
                 ELSE /\ Content(parse_error).kind = "non_sequential"
                      /\ Content(parse_error).detail = (1..n) \ nums

C25_Witness ==
    /\ pc = "done"
    /\ plan_blocks = <<1, 3>>
    /\ parse_error = {[kind |-> "non_sequential", detail |-> {2}]}

\* C26: a plan with no step block is a fatal precondition failure of the
\* execution workflow: no role is launched, the summary is written with
\* outcome failure and steps_completed 0, and the exit code is 2.
C26_EmptyPlanIsFatal ==
    (pc # "start" /\ plan_blocks = <<>>) =>
        /\ pc = "done"
        /\ launches = NoLaunches
        /\ worker_invocations = 0
        /\ reviewer_invocations = 0
        /\ exit_code = 2
        /\ outcome = "failure"
        /\ summary_writes = 1
        /\ Exists(summary_file)
        /\ Content(summary_file).outcome = "failure"
        /\ Content(summary_file).steps_completed = 0

C26_Witness ==
    /\ pc = "done"
    /\ plan_blocks = <<>>
    /\ last_event = "state_file_error"
    /\ parse_error = {[kind |-> "empty", detail |-> {}]}
    /\ exit_code = 2

\* C27: no step of either workflow deletes an artifact; the step artifacts
\* change only when a launched role returns, and what the orchestrator itself
\* writes is the summary file at the exit and, in execution, the fallback WORK
\* and REVIEW files of a timeout.
C27_ArtifactsNeverDeleted ==
    [][/\ \A n \in StepNums :
            /\ Exists(work[n]) => Exists(work'[n])
            /\ Exists(review[n]) => Exists(review'[n])
       /\ Exists(summary_file) => Exists(summary_file')
       /\ Exists(plan_summary_file) => Exists(plan_summary_file')
       /\ plan_final => plan_final'
       /\ plan_stuck => plan_stuck'
       /\ plan_review => plan_review'
       /\ plan_draft => plan_draft'
       /\ work' # work =>
            /\ pc = "worker"
            /\ \A n \in StepNums \ {step_num} : work'[n] = work[n]
            /\ (Content(work'[step_num]).origin = "timeout")
                  <=> (last_event' = "worker_timeout")
       /\ review' # review =>
            /\ pc = "reviewer"
            /\ \A n \in StepNums \ {step_num} : review'[n] = review[n]
            /\ IF last_event' = "reviewer_timeout"
               THEN review'[step_num] = {ReviewTimeoutFeedback}
               ELSE Content(review'[step_num]) \in AgentReviews
       /\ PlanFiles' # PlanFiles => plan_pc \in {"planner", "reviewer"}
       /\ summary_file' # summary_file => (pc # "done" /\ pc' = "done")
       /\ plan_summary_file' # plan_summary_file =>
            (plan_pc # "done" /\ plan_pc' = "done")]_vars

\* the reviewer of a step timed out in a rework cycle: the fallback review
\* replaced the earlier review, the work artifact is still there
C27_Witness ==
    /\ pc = "loop"
    /\ last_event = "reviewer_timeout"
    /\ revision_cycles >= 1
    /\ review[step_num] = {ReviewTimeoutFeedback}
    /\ Exists(work[step_num])

\* C29: after a planner invocation dispatched from review_ready has succeeded,
\* leaving PLAN_DRAFT and no approval or stuck artifact, the next detected state
\* is draft_ready and the reviewer is the next role launched.
C29_ReviewerFollowsRevision ==
    [][(/\ PlanWhileGuard
        /\ plan_last_event = "planner_ok"
        /\ plan_final_state = "review_ready"
        /\ plan_draft
        /\ ~plan_final
        /\ ~plan_stuck)
       => (plan_final_state' = "draft_ready" /\ plan_pc' = "reviewer")]_vars

\* C30: an iteration whose review artifact carries neither marker launches no
\* role, writes no artifact and changes no invocation or revision counter; the
\* following iterations of the step are the same until the iteration counter
\* reaches the budget, and the run then ends with exit code 1.
C30_ReviewDoneSpinsToBudget ==
    [][/\ (/\ WhileGuard
           /\ last_role # "worker"
           /\ Exists(review[step_num])
           /\ LET content == Content(review[step_num]) IN
                Len(content) = 0
                   \/ (~Contains(content[1], APPROVED)
                          /\ ~Contains(content[1], NEEDS_REWORK)))
          => /\ final_state' = "review_done"
             /\ last_event' = "review_done"
             /\ pc' = "loop"
             /\ iteration' = iteration + 1
             /\ UNCHANGED <<step_idx, last_role, work, review, launches,
                            worker_invocations, reviewer_invocations,
                            revision_cycles, steps_completed, summary_file>>
       /\ (pc = "loop" /\ last_event = "review_done" /\ ~WhileGuard)
          => /\ pc' = "done"
             /\ exit_code' = 1
             /\ final_state' = "review_done"
             /\ UNCHANGED <<work, review, launches, worker_invocations,
                            reviewer_invocations, revision_cycles>>]_vars

C30_Witness ==
    /\ pc = "done"
    /\ last_event = "exhausted"
    /\ final_state = "review_done"
    /\ exit_code = 1
    /\ iteration = max_agent_invocations
    /\ max_agent_invocations >= 3
    /\ launches[step_num].reviewer = 1
    /\ review[step_num] = {ReviewUnmarked}

\* C31: after any worker timeout the fallback WORK artifact is what gets
\* evaluated next: the next role launched for the step is the reviewer.
C31_ReviewerFollowsWorkerTimeout ==
    [][(WhileGuard /\ last_event = "worker_timeout") => pc' = "reviewer"]_vars

\* C32: in needs_rework the feedback handed to the worker is the content of
\* the review artifact without its first line, whether that line is the bare
\* marker or the marker followed by text.
C32_FeedbackWithoutMarkerLine ==
    [][(pc = "loop" /\ pc' = "worker" /\ final_state' = "needs_rework") =>
          review_feedback' = {strip(Tail(Content(review[step_num])))}]_vars

\* C34: each rework verdict (one content of the REVIEW artifact whose first
\* line has the rework marker) raises revision_cycles by at most one.
C34_OneCyclePerVerdict ==
    [][revision_cycles' # revision_cycles =>
          /\ revision_cycles' = revision_cycles + 1
          /\ ~verdict_counted]_vars

\* C35: for every step the launches made for it (worker plus reviewer) never
\* exceed max_agent_invocations: an iteration launches at most one agent, the
\* iteration counter starts at 0 for each step and advances on every
\* iteration, also on those that launch nobody.
C35_LaunchesPerStepWithinBudget ==
    /\ [](\A n \in StepNums :
            launches[n].worker + launches[n].reviewer <= max_agent_invocations)
    /\ [](pc \in {"loop", "worker", "reviewer"} =>
            /\ launches[step_num].worker + launches[step_num].reviewer <= iteration
            /\ iteration <= max_agent_invocations)
    /\ [][/\ launches' # launches =>
               /\ pc = "loop" /\ pc' \in {"worker", "reviewer"}
               /\ iteration' = iteration + 1
               /\ \A n \in StepNums \ {step_num} : launches'[n] = launches[n]
               /\ launches'[step_num].worker + launches'[step_num].reviewer
                     = launches[step_num].worker + launches[step_num].reviewer + 1
          /\ (pc = "loop" /\ pc' = "loop" /\ step_idx' = step_idx
                 /\ last_event' # last_event) =>
               iteration' = iteration + 1
          /\ (pc = "loop" /\ step_idx' # step_idx /\ step_idx # 0) =>
               iteration' = 0]_vars

\* a step that used its whole budget on launches, after an earlier step
C35_Witness ==
    /\ pc = "done"
    /\ step_idx = 2
    /\ max_agent_invocations >= 3
    /\ iteration = max_agent_invocations
    /\ launches[step_num].worker + launches[step_num].reviewer
          = max_agent_invocations
    /\ launches[steps[1].step_num].worker >= 1

\* C36: the reviewer is launched for a step only if the step's WORK artifact
\* exists when the iteration reads it; after a worker that exited 0 without
\* leaving one, the forced work_done iteration ends the run with a state-file
\* error (exit code 2, outcome failure) and launches no reviewer.
C36_NoReviewWithoutWork ==
    [][/\ (pc = "loop" /\ pc' = "reviewer") => Exists(work[step_num])
       /\ (WhileGuard /\ last_role = "worker" /\ ~Exists(work[step_num])) =>
            /\ pc' = "done"
            /\ final_state' = "work_done"
            /\ exit_code' = 2
            /\ outcome' = "failure"
            /\ launches' = launches
            /\ reviewer_invocations' = reviewer_invocations
            /\ Exists(summary_file')
            /\ Content(summary_file').outcome = "failure"]_vars

C36_Witness ==
    /\ pc = "done"
    /\ last_event = "state_file_error"
    /\ last_role = "worker"
    /\ final_state = "work_done"
    /\ ~Exists(work[step_num])
    /\ launches[step_num] = [worker |-> 1, reviewer |-> 0]
    /\ exit_code = 2

\* C38: the orchestrator writes a fallback WORK artifact only when the step
\* has no WORK artifact yet, so a work summary written by the agent is never
\* overwritten by the orchestrator.
C38_FallbackOnlyWithoutWork ==
    [][(pc = "worker" /\ last_event' = "worker_timeout") =>
          /\ ~Exists(work[step_num])
          /\ \A n \in StepNums : work[n] = {AgentWork} => work'[n] = work[n]]_vars

\* C33: at every terminal exit the summary's planner_invocations and
\* reviewer_invocations are the numbers of planner and reviewer launches of the
\* run, each retry attempt counted once, and their sum is the count compared
\* against the budget.
C33_SummaryCountsLaunches ==
    (plan_pc = "done" /\ Exists(plan_summary_file)) =>
        /\ Content(plan_summary_file).planner_invocations = plan_launches.planner
        /\ Content(plan_summary_file).reviewer_invocations = plan_launches.reviewer
        /\ Content(plan_summary_file).planner_invocations
              + Content(plan_summary_file).reviewer_invocations
              = planner_invocations + plan_reviewer_invocations

\* C37: retry_with_backoff returns a (success, result) pair also with
\* max_retries = 0, where it makes no attempt and reports failure, so that the
\* planning run ends through a documented exit code with a summary written.
C37_NoAttemptReportsFailure ==
    (/\ plan_pc = "done"
     /\ max_retries = 0
     /\ plan_final_state \in {"initial", "draft_ready", "review_ready"}
     /\ plan_review_readable
     /\ summary_writable) =>
        /\ plan_launches = [planner |-> 0, reviewer |-> 0]
        /\ retry_result # {}
        /\ ~Content(retry_result).success
        /\ plan_exit_code \in 0..3
        /\ plan_outcome # None
        /\ plan_summary_writes = 1


\* C39: two orchestrator processes on one session name are not kept apart.
\* A process at the top of its loop can always take its next step (a launch,
\* an exit or the next iteration), whatever the other process is doing, also
\* while the other has a launch in flight or a file open; and when a process
\* writes the fallback REVIEW after a reviewer timeout, any other process
\* that is at the top of its loop, and did not just run a worker, detects
\* "needs_rework" from it next.
C39_NothingPreventsInterference ==
    /\ [](\A p \in Procs : procs[p].pc = "loop" => ENABLED RaceStep(p))
    /\ [][\A p \in Procs :
            (procs[p].pc = "reviewer_fallback" /\ procs'[p].pc = "loop")
            => \A q \in Procs \ {p} :
                   (procs'[q].pc = "loop" /\ procs'[q].last_role # "worker")
                   => detect_step_state(review'[step_num], work'[step_num])
                          = "needs_rework"]_vars

\* both processes have a worker in flight for the step, and one of them, which
\* never launched a reviewer, launched it on the "needs_rework" it detected from
\* the fallback REVIEW the other process wrote when its reviewer timed out
C39_Witness ==
    /\ \A p \in Procs : procs[p].pc = "worker"
    /\ review[step_num] = {ReviewTimeoutFeedback}
    /\ \E p \in Procs :
        /\ procs[p].reviewer_invocations = 0
        /\ procs[p].final_state = "needs_rework"
        /\ procs[p].revision_cycles = 1
        /\ \E q \in Procs \ {p} :
            /\ procs[q].reviewer_invocations = 1
            /\ procs[q].final_state = "needs_rework"

====
